---- MODULE Spec2Model ----
(***************************************************************************)
(* Extraction pipeline of ai-insights-v3: the batch orchestrator           *)
(* (src/src/agents/orchestrator.py), the script that submits the parts of  *)
(* a split corpus (src/run_remaining_batches.py), the batch gateway        *)
(* (src/src/skills/batch_processing.py), the validator (src/parser.py)     *)
(* and the sink writer (src/db.py), as one state machine.  Every write to  *)
(* the store or to a file is a step of its own, and the process can be     *)
(* killed between any two steps.                                           *)
(*                                                                         *)
(* Persistent state: state.json (stateFile), the chunk-map files           *)
(* (mapFiles), the provider's batch jobs (jobs) and the insights table     *)
(* (sink).  At most one orchestrator process runs at a time; its position  *)
(* is pc and its local variables are lost when it is killed.               *)
(***************************************************************************)
EXTENDS Integers, Sequences, FiniteSets, TLC

\* ------------------------------------------------------------------ bounds
\* The request ceiling and the upsert batch size the model runs with.  The
\* code's arithmetic is parametric in them; the program's own values are
\* MAX_REQUESTS_PER_BATCH and batch_size below.
Ceiling == 2
BatchSize == 2
\* Number of batch jobs the provider accepts in one behaviour.
MaxJobs == 2
\* Number of processes started in one behaviour.
MaxRuns == 3

\* ------------------------------------------------------- program constants
MAX_REQUESTS_PER_BATCH == 2000
batch_size == 50
\* stop_after_attempt of process_single and of process_chunk
SINGLE_ATTEMPTS == 3
CHUNK_ATTEMPTS == 5

DefaultModel == "gpt-4o-mini"
Models == {DefaultModel, "gpt-4o"}

TerminalStatuses == {"completed", "failed", "expired", "cancelled"}

\* Faulty variant: poll_batch returns on whatever status the first retrieve shows.
IsTerminalAlways(status) == TRUE

\* The test that ends poll_batch's loop.
IsTerminal(status) == status \in TerminalStatuses

\* --------------------------------------------------------------- utilities
Min(a, b) == IF a <= b THEN a ELSE b

\* ceil(n / m), from its definition.
CeilDiv(n, m) == CHOOSE k \in 0..n : k * m >= n /\ (k = 0 \/ (k - 1) * m < n)

\* Python s[a:b] for 0 <= a, on a sequence.
Slice(s, a, b) == SubSeq(s, a + 1, Min(b, Len(s)))

RECURSIVE Concat(_)
Concat(ss) == IF ss = <<>> THEN <<>> ELSE Head(ss) \o Concat(Tail(ss))

RECURSIVE Dedup(_, _)
\* Step 3b of run_pipeline: keep the first occurrence of every transcript id.
Dedup(tids, seen) ==
    IF tids = <<>> THEN <<>>
    ELSE IF Head(tids) \in seen THEN Dedup(Tail(tids), seen)
         ELSE <<Head(tids)>> \o Dedup(Tail(tids), seen \cup {Head(tids)})

SelectSeqIn(s, S) == SelectSeq(s, LAMBDA x : x \in S)
SelectSeqNotIn(s, S) == SelectSeq(s, LAMBDA x : x \notin S)

\* ------------------------------------------------------------ the corpus
\* The transcript view: transcript ids and, per transcript, the number of
\* chunks chunk_transcript returns for its text.
TranscriptIds == {1, 2, 3}
ChunkCount(tid) == IF tid = 1 THEN 2 ELSE 1

\* What fetch_transcripts can return (the view may hold duplicates).
Views == {<<>>, <<2, 1, 2>>}

Metadata(tid) == [transcript_id |-> tid, deal_id |-> 100 + tid]
NoMetadata == [transcript_id |-> 0, deal_id |-> 0]

\* custom_id = f"{tid}__{chunk_index}"
CustomId(tid, cidx) == <<tid, cidx>>
\* custom_id.split("__")[0]
CustomIdHead(cid) == cid[1]

Chunk(tid, cidx) ==
    [custom_id |-> CustomId(tid, cidx), transcript_id |-> tid,
     chunk_index |-> cidx, metadata |-> Metadata(tid)]

ChunksOf(tid) == [i \in 1..ChunkCount(tid) |-> Chunk(tid, i - 1)]

\* Step 4 of run_pipeline: all_chunks, transcript after transcript.
AllChunks(tids) == Concat([i \in 1..Len(tids) |-> ChunksOf(tids[i])])

\* --------------------------------------------------------------- taxonomy
ValidPains == {"fragmented_tools"}
ValidFrictions == {"budget"}
ValidFaqs == {"pricing"}
ValidRelationships == {"evaluating"}
ValidModules == {"chat"}
\* PAIN_SUBTYPES[subtype]["module"]: None for every pain of the taxonomy.
PainModule(subtype) == ""

InsightTypes ==
    {"pain", "product_gap", "competitive_signal", "deal_friction", "faq"}
\* SEED_FEATURE_NAMES: feature codes are sequences of characters.
SeedFeatures == {<<"a">>}

\* text.lower()
Lower(c) == IF c = "A" THEN "a" ELSE IF c = "B" THEN "b" ELSE c
\* [a-z0-9_]
SlugChars == {"a", "b", "_"}

RECURSIVE Collapse(_)
\* re.sub(r"_+", "_", slug)
Collapse(t) ==
    IF Len(t) <= 1 THEN t
    ELSE IF t[1] = "_" /\ t[2] = "_" THEN Collapse(Tail(t))
    ELSE <<t[1]>> \o Collapse(Tail(t))

RECURSIVE StripLeft(_, _)
StripLeft(t, cs) ==
    IF t # <<>> /\ t[1] \in cs THEN StripLeft(Tail(t), cs) ELSE t

RECURSIVE StripRight(_, _)
StripRight(t, cs) ==
    IF t # <<>> /\ t[Len(t)] \in cs
    THEN StripRight(SubSeq(t, 1, Len(t) - 1), cs) ELSE t

\* str.strip
Strip(t, cs) == StripRight(StripLeft(t, cs), cs)

\* parser._to_slug
ToSlug(text) ==
    LET lowered == Strip([i \in 1..Len(text) |-> Lower(text[i])], {" "})
        replaced == [i \in 1..Len(lowered) |->
                        IF lowered[i] \in SlugChars THEN lowered[i] ELSE "_"]
    IN  Strip(Collapse(replaced), {"_"})

\* An InsightItem; "" is a missing module or relationship, <<>> a missing
\* feature name, and confidence is in tenths.
Insight(t, st, m, s, c, rel) ==
    [insight_type |-> t, insight_subtype |-> st, module |-> m, summary |-> s,
     confidence |-> c, competitor_relationship |-> rel, feature_name |-> <<>>]

\* An insight that names a feature.
FeatureInsight(t, st, m, s, feat) ==
    [Insight(t, st, m, s, 5, "") EXCEPT !.feature_name = feat]

\* The model's answer for a chunk (temperature 0: one answer per chunk).
ResponseFor(cid) ==
    IF cid = <<1, 0>> THEN
        <<Insight("pain", "fragmented_tools", "", "s1", 9, ""),
          Insight("pain", "fragmented_tools", "bogus", "s1", 5, "")>>
    ELSE IF cid = <<1, 1>> THEN
        <<Insight("product_gap", "gap", "", "s2", 7, ""),
          Insight("faq", "pricing", "chat", "s3", 8, "")>>
    ELSE IF cid = <<2, 0>> THEN
        <<Insight("competitive_signal", "other", "", "s4", 6, "evaluating")>>
    ELSE
        <<Insight("deal_friction", "unknown", "", "s5", 4, "")>>

\* -------------------------------------------------------------- validator
\* db.compute_content_hash: sha256 of "|".join(key_parts), kept as the joined
\* string (sha256 is taken as free of collisions).
ComputeContentHash(insight, transcript_id, chunk) ==
    ToString(transcript_id) \o "|" \o ToString(chunk) \o "|"
        \o insight.insight_type \o "|" \o insight.insight_subtype \o "|"
        \o insight.summary

\* _normalize_insight, lines 119-123: a pain without module takes the
\* module of its subtype in the taxonomy.
AssignedModule(insight) ==
    IF insight.insight_type = "pain" /\ insight.module = ""
    THEN PainModule(insight.insight_subtype) ELSE insight.module

\* Faulty variant: a product_gap whose module is missing or unknown is
\* kept, without module.
RejectedKeepsGaps(insight) ==
    LET itype == insight.insight_type
        sub0 == insight.insight_subtype
    IN  \/ itype = "pain" /\ sub0 \notin ValidPains
        \/ itype = "deal_friction" /\ sub0 \notin ValidFrictions
        \/ itype = "faq" /\ sub0 \notin ValidFaqs
        \/ /\ itype = "competitive_signal"
           /\ sub0 \notin ValidRelationships
           /\ insight.competitor_relationship \notin ValidRelationships

\* _normalize_insight, lines 114-159: the cases that return None.
Rejected(insight) ==
    LET itype == insight.insight_type
        sub0 == insight.insight_subtype
        mod1 == AssignedModule(insight)
    IN  \/ itype = "pain" /\ sub0 \notin ValidPains
        \/ itype = "deal_friction" /\ sub0 \notin ValidFrictions
        \/ itype = "faq" /\ sub0 \notin ValidFaqs
        \/ /\ itype = "competitive_signal"
           /\ sub0 \notin ValidRelationships
           /\ insight.competitor_relationship \notin ValidRelationships
        \/ itype = "product_gap" /\ insight.module = ""
        \/ itype = "product_gap" /\ mod1 # "" /\ mod1 \notin ValidModules

\* Lines 135-140: the subtype of a competitive signal falls back to its
\* relationship.
FinalSubtype(insight) ==
    IF /\ insight.insight_type = "competitive_signal"
       /\ insight.insight_subtype \notin ValidRelationships
    THEN insight.competitor_relationship ELSE insight.insight_subtype

\* Lines 155-159: a module that is not in the catalog is dropped.
FinalModule(insight) ==
    LET mod1 == AssignedModule(insight)
    IN  IF mod1 # "" /\ mod1 \notin ValidModules THEN "" ELSE mod1

\* Lines 151-152: the feature name of a product_gap becomes a slug.
FinalFeature(insight) ==
    IF insight.insight_type = "product_gap" /\ insight.feature_name # <<>>
    THEN ToSlug(insight.feature_name) ELSE insight.feature_name

\* Faulty variant: the hash is taken of the subtype the model returned.
InsightRowHashesRawSubtype(insight, subtype, module, feature, transcript_id, chunk_index, metadata, model_used, batch) ==
    [transcript_id |-> transcript_id,
     transcript_chunk |-> chunk_index,
     deal_id |-> metadata.deal_id,
     insight_type |-> insight.insight_type,
     insight_subtype |-> subtype,
     module |-> module,
     summary |-> insight.summary,
     confidence |-> insight.confidence,
     competitor_relationship |-> insight.competitor_relationship,
     feature_name |-> feature,
     model_used |-> model_used,
     batch_id |-> batch,
     content_hash |->
         ComputeContentHash(
             [insight_type |-> insight.insight_type,
              insight_subtype |-> insight.insight_subtype,
              summary |-> insight.summary],
             transcript_id, chunk_index)]

\* Lines 166-204: the row, with its content hash.
InsightRow(insight, subtype, module, feature, transcript_id, chunk_index, metadata, model_used, batch) ==
    [transcript_id |-> transcript_id,
     transcript_chunk |-> chunk_index,
     deal_id |-> metadata.deal_id,
     insight_type |-> insight.insight_type,
     insight_subtype |-> subtype,
     module |-> module,
     summary |-> insight.summary,
     confidence |-> insight.confidence,
     competitor_relationship |-> insight.competitor_relationship,
     feature_name |-> feature,
     model_used |-> model_used,
     batch_id |-> batch,
     content_hash |->
         ComputeContentHash(
             [insight_type |-> insight.insight_type,
              insight_subtype |-> subtype,
              summary |-> insight.summary],
             transcript_id, chunk_index)]

\* parser._normalize_insight: the row of one insight, <<>> standing for None.
NormalizeInsight(insight, transcript_id, chunk_index, metadata, model_used, batch) ==
    IF Rejected(insight) THEN <<>>
    ELSE <<InsightRow(insight, FinalSubtype(insight), FinalModule(insight),
                      FinalFeature(insight), transcript_id, chunk_index,
                      metadata, model_used, batch)>>


\* parser.parse_response on a schema-valid answer: the rows of the insights
\* that pass, in the order of the answer.
ParseResponse(insights, transcript_id, chunk_index, metadata, model_used, batch) ==
    Concat([i \in 1..Len(insights) |->
        NormalizeInsight(insights[i], transcript_id, chunk_index, metadata,
                         model_used, batch)])

\* The parser's feature sets: _valid_features and the keys of _new_features.
SeedFeatureSets == [valid |-> SeedFeatures, new |-> {}]

\* parse_response, lines 83-88: the row names a feature that is in neither
\* set, and a client was given.
IsNewFeature(row, feats, client) ==
    /\ row.feature_name # <<>>
    /\ row.feature_name \notin feats.valid
    /\ row.feature_name \notin feats.new
    /\ client

\* parser._register_new_feature: the code enters both sets
\* (insert_new_feature catches its own exceptions).
RegisterNewFeature(feats, code) ==
    [valid |-> feats.valid \cup {code}, new |-> feats.new \cup {code}]

RECURSIVE ParseLoopStopsAtInvalid(_, _, _, _, _, _, _, _)
\* Faulty variant: the loop ends at the first insight that is dropped.
ParseLoopStopsAtInvalid(insights, transcript_id, chunk_index, metadata, model_used, batch, client, acc) ==
    IF insights = <<>> THEN acc
    ELSE LET row == NormalizeInsight(Head(insights), transcript_id,
                                     chunk_index, metadata, model_used, batch)
         IN  IF row = <<>> THEN acc
             ELSE ParseLoopStopsAtInvalid(
                      Tail(insights), transcript_id, chunk_index, metadata,
                      model_used, batch, client,
                      [acc EXCEPT !.rows = acc.rows \o row])

RECURSIVE ParseLoop(_, _, _, _, _, _, _, _)
\* The loop of parse_response over response.insights, from acc: the rows
\* so far, the feature sets and the features registered, in order.
ParseLoop(insights, transcript_id, chunk_index, metadata, model_used, batch, client, acc) ==
    IF insights = <<>> THEN acc
    ELSE LET row == NormalizeInsight(Head(insights), transcript_id,
                                     chunk_index, metadata, model_used, batch)
             isNew == row # <<>> /\ IsNewFeature(row[1], acc.feats, client)
             next == [rows |-> acc.rows \o row,
                      feats |-> IF isNew
                                THEN RegisterNewFeature(acc.feats,
                                                        row[1].feature_name)
                                ELSE acc.feats,
                      registered |-> IF isNew
                                     THEN Append(acc.registered,
                                                 row[1].feature_name)
                                     ELSE acc.registered]
         IN  ParseLoop(Tail(insights), transcript_id, chunk_index, metadata,
                       model_used, batch, client, next)

\* json.loads of a raw answer given as text: its data, or no data when the
\* text is not JSON.  A raw answer is [text, parses, data]; data is
\* [object, has_insights, insights].
JsonLoads(raw) == IF raw.parses THEN <<raw.data>> ELSE <<>>

\* TranscriptInsightsResponse.model_validate: an object with a list of
\* insights, each of a known insight_type and a confidence within 0..1.
ItemValid(item) ==
    item.insight_type \in InsightTypes /\ item.confidence \in 0..10
\* Faulty variant: the items of the list are not validated.
ModelValidateLenient(data) == data.object /\ data.has_insights

ModelValidate(data) ==
    /\ data.object
    /\ data.has_insights
    /\ \A i \in 1..Len(data.insights) : ItemValid(data.insights[i])

\* parser.parse_response: [raised, rows, feats, registered].
ParseRaw(raw, transcript_id, chunk_index, metadata, model_used, batch, client, feats) ==
    LET nothing == [raised |-> FALSE, rows |-> <<>>, feats |-> feats,
                    registered |-> <<>>]
        loaded == IF raw.text THEN JsonLoads(raw) ELSE <<raw.data>>
    IN  IF loaded = <<>> THEN nothing
        ELSE IF ~ModelValidate(loaded[1]) THEN nothing
        ELSE LET out == ParseLoop(loaded[1].insights, transcript_id,
                                  chunk_index, metadata, model_used, batch,
                                  client,
                                  [rows |-> <<>>, feats |-> feats,
                                   registered |-> <<>>])
             IN  [raised |-> FALSE, rows |-> out.rows, feats |-> out.feats,
                  registered |-> out.registered]

\* ------------------------------------------------------------------- sink
\* One upsert(row, on_conflict="content_hash") on the insights table, which
\* holds one row per content_hash.
UpsertRow(table, row) ==
    [h \in DOMAIN table \cup {row.content_hash} |->
        IF h = row.content_hash THEN row ELSE table[h]]

RECURSIVE UpsertAll(_, _)
\* The rows of one batch reach the table in list order (in one statement,
\* or one by one after the statement failed).
UpsertAll(table, rows) ==
    IF rows = <<>> THEN table
    ELSE UpsertAll(UpsertRow(table, Head(rows)), Tail(rows))

\* The positions of rows that make up batch k of insert_insights.
BatchPositions(rows, k) ==
    [j \in 1..(Min(k * BatchSize, Len(rows)) - (k - 1) * BatchSize)
         |-> (k - 1) * BatchSize + j]

RECURSIVE InsertOneByOneStopsAtFailure(_, _, _, _)
\* Faulty variant: the first row that fails ends the batch.
InsertOneByOneStopsAtFailure(acc, rows, positions, unwritable) ==
    IF positions = <<>> \/ Head(positions) \in unwritable THEN acc
    ELSE InsertOneByOneStopsAtFailure(
             [table |-> UpsertRow(acc.table, rows[Head(positions)]),
              inserted |-> acc.inserted + 1],
             rows, Tail(positions), unwritable)

RECURSIVE InsertOneByOne(_, _, _, _)
\* The fallback of insert_insights: the rows of a batch are upserted one
\* at a time; a row whose upsert raises is logged and skipped.
InsertOneByOne(acc, rows, positions, unwritable) ==
    IF positions = <<>> THEN acc
    ELSE InsertOneByOne(
             IF Head(positions) \in unwritable THEN acc
             ELSE [table |-> UpsertRow(acc.table, rows[Head(positions)]),
                   inserted |-> acc.inserted + 1],
             rows, Tail(positions), unwritable)

RECURSIVE InsertBatches(_, _, _, _, _)
\* The loop of insert_insights from batch k on. bulkFails holds the batches
\* whose bulk upsert raises, unwritable the positions of the rows whose
\* single upsert raises.
InsertBatches(acc, rows, k, bulkFails, unwritable) ==
    IF (k - 1) * BatchSize >= Len(rows) THEN acc
    ELSE LET positions == BatchPositions(rows, k)
             batch == [j \in DOMAIN positions |-> rows[positions[j]]]
         IN  InsertBatches(
                 IF k \in bulkFails
                 THEN InsertOneByOne(acc, rows, positions, unwritable)
                 ELSE [table |-> UpsertAll(acc.table, batch),
                       inserted |-> acc.inserted + Len(batch)],
                 rows, k + 1, bulkFails, unwritable)

\* db.insert_insights(client, rows): every upsert is inside a try, so no
\* exception leaves the function and its retry never fires.
InsertInsights(table, rows, bulkFails, unwritable) ==
    LET end == IF rows = <<>> THEN [table |-> table, inserted |-> 0]
               ELSE InsertBatches([table |-> table, inserted |-> 0], rows, 1,
                                  bulkFails, unwritable)
    IN  [raised |-> FALSE, table |-> end.table, inserted |-> end.inserted]

\* db.get_processed_transcript_ids
ProcessedIds(table) == {table[h].transcript_id : h \in DOMAIN table}

\* ------------------------------------------------------------- state file
EmptyDict ==
    [pending_batch_id |-> 0, model |-> "", chunk_count |-> 0, started_at |-> 0,
     chunk_map_path |-> 0, batch_status |-> "", last_completed_batch |-> 0,
     completed_at |-> 0, last_completed |-> "", total_parsed |-> 0,
     total_inserted |-> 0, part |-> 0, total_parts |-> 0]

MissingFile == [kind |-> "missing", dict |-> EmptyDict]
\* What a kill inside save_state leaves: open(path, "w") has truncated the
\* file and json.dump has not been flushed.
CorruptFile == [kind |-> "corrupt", dict |-> EmptyDict]
JsonFile(d) == [kind |-> "json", dict |-> d]

\* orchestrator.load_state: {} when the file is absent, json.load otherwise
\* (which raises on a file that is not JSON).
LoadState(file) ==
    IF file.kind = "missing" THEN [raised |-> FALSE, dict |-> EmptyDict]
    ELSE IF file.kind = "corrupt" THEN [raised |-> TRUE, dict |-> EmptyDict]
    ELSE [raised |-> FALSE, dict |-> file.dict]

\* Faulty variant: the resume test reads the wrong key of the state.
ShouldResumeWrongKey(resume, d) == resume /\ d.last_completed_batch # 0

\* run_pipeline, line 83: resume the pending batch.
ShouldResume(resume, d) == resume /\ d.pending_batch_id # 0

\* _resume_batch, line 335: model = state.get("model", model)
ResumeModel(d, m) == IF d.model # "" THEN d.model ELSE m

\* orchestrator.save_state: the file is rewritten whole.
SaveState(d) == JsonFile(d)

\* Faulty variant: the saved state does not name the chunk map.
PendingStateNoMap(batch, path, model, n, t) ==
    [EmptyDict EXCEPT !.pending_batch_id = batch, !.model = model,
                      !.chunk_count = n, !.started_at = t]

\* Faulty variant: the saved state does not name the job.
PendingStateNoId(batch, path, model, n, t) ==
    [EmptyDict EXCEPT !.model = model, !.chunk_count = n, !.started_at = t,
                      !.chunk_map_path = path]

\* The state _submit_and_process_single_batch builds after submit_batch.
PendingState(batch, path, model, n, t) ==
    [EmptyDict EXCEPT !.pending_batch_id = batch, !.model = model,
                      !.chunk_count = n, !.started_at = t,
                      !.chunk_map_path = path]

\* {**state, "batch_status": status}
FailedState(d, status) == [d EXCEPT !.batch_status = status]

\* Faulty variant: the marker is merged into the pending state instead of
\* replacing it.
CompletedStateKeepsPending(batch, t) ==
    [EmptyDict EXCEPT !.pending_batch_id = batch,
                      !.last_completed_batch = batch, !.completed_at = t]

\* {"last_completed_batch": id, "completed_at": time.time()}
CompletedState(batch, t) ==
    [EmptyDict EXCEPT !.last_completed_batch = batch, !.completed_at = t]

\* The state run_direct.main saves when the pool has drained.
DirectState(parsed, inserted, t) ==
    [EmptyDict EXCEPT !.last_completed = "direct_api", !.completed_at = t,
                      !.total_parsed = parsed, !.total_inserted = inserted]

\* run_remaining_batches.py: the parts of the corpus, the chunk map of the
\* corpus and the job of part 1, which is already at the provider.
N_PARTS == 4
MaxParts == 2
Parts == Min(N_PARTS, MaxParts)
MODEL == "gpt-4o-mini"
CHUNK_MAP_PATH == 1
RESUME_BATCH == 1

\* The state run_remaining_batches.main saves before it polls a part.
PartState(batch, part) ==
    [EmptyDict EXCEPT !.pending_batch_id = batch, !.part = part,
                      !.total_parts = N_PARTS, !.model = MODEL]

\* The state run_remaining_batches.main saves after the last part.
AllPartsState(parsed, inserted, t) ==
    [EmptyDict EXCEPT !.last_completed = "all_4_parts", !.completed_at = t,
                      !.total_parsed = parsed, !.total_inserted = inserted]

\* orchestrator.get_batch_status, up to the provider query.
GetBatchStatus(file) ==
    LET st == LoadState(file)
    IN  IF st.raised THEN [status |-> "raised", last_completed |-> 0]
        ELSE IF st.dict.pending_batch_id # 0
             THEN [status |-> "pending", last_completed |-> 0]
        ELSE IF st.dict.last_completed_batch # 0
             THEN [status |-> "no_pending",
                   last_completed |-> st.dict.last_completed_batch]
        ELSE [status |-> "none", last_completed |-> 0]

\* ------------------------------------------------------------- chunk maps
\* The map file written next to the JSONL: custom_id -> transcript_id,
\* chunk_index, metadata.
ChunkMapOf(chunks) ==
    {[custom_id |-> chunks[i].custom_id,
      transcript_id |-> chunks[i].transcript_id,
      chunk_index |-> chunks[i].chunk_index,
      metadata |-> chunks[i].metadata] : i \in 1..Len(chunks)}

\* chunk_map.get(custom_id, {}) with the three .get defaults.
ChunkInfo(chunk_map, cid) ==
    IF \E e \in chunk_map : e.custom_id = cid
    THEN CHOOSE e \in chunk_map : e.custom_id = cid
    ELSE [custom_id |-> cid, transcript_id |-> CustomIdHead(cid),
          chunk_index |-> 0, metadata |-> NoMetadata]

\* _process_batch_results: the map named by the state, {} when the state
\* names none or the file is not there.
LoadChunkMap(d, files) ==
    IF d.chunk_map_path # 0 /\ d.chunk_map_path \in DOMAIN files
    THEN files[d.chunk_map_path] ELSE {}

\* ------------------------------------------------------------ sub-batches
\* Faulty variant: the number of sub-batches is rounded down.
NumBatchesFloor(n, m) == n \div m

\* num_batches of _process_batch.
NumBatches(n, m) == (n + m - 1) \div m

\* start and end of sub-batch batch_idx among n chunks.
SubStart(idx, m) == idx * m
SubEnd(idx, n, m) == Min(SubStart(idx, m) + m, n)

\* chunks[start:end] of sub-batch batch_idx.
SubChunks(chunks, idx, m) ==
    Slice(chunks, SubStart(idx, m), SubEnd(idx, Len(chunks), m))

\* The sizes of the sub-batches _process_batch makes of n chunks, in order.
SubBatchSizes(n, m) ==
    IF n <= m THEN <<n>>
    ELSE [i \in 1..NumBatches(n, m) |-> SubEnd(i - 1, n, m) - SubStart(i - 1, m)]

\* The chunks _process_batch hands to _submit_and_process_single_batch at
\* position idx: everything when the ceiling is not exceeded.
BatchChunks(chunks, idx, m) ==
    IF Len(chunks) <= m THEN chunks ELSE SubChunks(chunks, idx, m)

\* Number of _submit_and_process_single_batch calls of _process_batch.
BatchCount(n, m) == IF n <= m THEN 1 ELSE NumBatches(n, m)

\* --------------------------------------------------------------- provider
\* A batch job at the provider.  outcomes[i] is what the output file holds
\* for chunk i of a completed job: "ok" (a parsed answer), "none" (a line
\* whose content is not usable: response None) or "absent" (the request
\* failed: no line in the output file).
NewJob(chunks, model) ==
    [chunks |-> chunks, model |-> model, status |-> "in_progress",
     failed |-> 0, outcomes |-> [i \in 1..Len(chunks) |-> "absent"]]

CountOf(f, v) == Cardinality({i \in DOMAIN f : f[i] = v})

\* batch_processing.poll_batch's return value once the status is terminal.
PollResult(id, job) == [id |-> id, status |-> job.status, failed |-> job.failed]
NoResult == [id |-> 0, status |-> "", failed |-> 0]

\* batch_processing.download_batch_results: one item per line of the output
\* file, response None when the line holds no usable answer.
DownloadBatchResults(job) ==
    LET lines == SelectSeq([i \in 1..Len(job.chunks) |-> i],
                           LAMBDA i : job.outcomes[i] # "absent")
    IN  [k \in 1..Len(lines) |->
            [custom_id |-> job.chunks[lines[k]].custom_id,
             response |-> job.outcomes[lines[k]] = "ok",
             insights |-> IF job.outcomes[lines[k]] = "ok"
                          THEN ResponseFor(job.chunks[lines[k]].custom_id)
                          ELSE <<>>]]

\* The loop of _process_batch_results over the results: all_rows.
RowsOfResults(results, chunk_map, model, batch) ==
    Concat([k \in 1..Len(results) |->
        IF ~results[k].response THEN <<>>
        ELSE LET info == ChunkInfo(chunk_map, results[k].custom_id)
             IN  ParseResponse(results[k].insights, info.transcript_id,
                               info.chunk_index, info.metadata, model, batch)])

NoneCount(results) ==
    Cardinality({k \in 1..Len(results) : ~results[k].response})

\* -------------------------------------------------------------- chunker
\* A text is the sequence of its lines (the text is their "\n"-join). A
\* line is a speaker label "A:" or nothing, followed by words of one
\* lowercase letter separated by single spaces; a speaker line has a word.
\* The blank line is the empty string.
Line(speaker, words) == [speaker |-> speaker, words |-> words]
IsBlank(line) == ~line.speaker /\ line.words = 0

\* cl100k_base on such a line: one token per word (the space before a word
\* belongs to it), and "A" and ":" for the label.
LineTokens(line) == line.words + (IF line.speaker THEN 2 ELSE 0)

RECURSIVE SumLineTokens(_)
SumLineTokens(text) ==
    IF text = <<>> THEN 0 ELSE LineTokens(Head(text)) + SumLineTokens(Tail(text))

\* The maximal runs of "\n" of the text: one between two neighbouring
\* non-blank lines (blank lines between them lengthen it), one before the
\* first and one after the last non-blank line when blank lines are there.
NewlineRuns(text) ==
    LET full == {i \in 1..Len(text) : ~IsBlank(text[i])}
    IN  IF Len(text) <= 1 THEN 0
        ELSE IF full = {} THEN 1
        ELSE (Cardinality(full) - 1)
                 + (IF IsBlank(text[1]) THEN 1 ELSE 0)
                 + (IF IsBlank(text[Len(text)]) THEN 1 ELSE 0)

\* chunker.count_tokens: the tokens of the lines and one token per run of
\* newlines.
CountTokens(text) == SumLineTokens(text) + NewlineRuns(text)

\* chunker._split_into_lines: the non-blank lines, each a text of its own.
SplitIntoLines(text) ==
    LET kept == SelectSeq(text, LAMBDA l : ~IsBlank(l))
    IN  [i \in 1..Len(kept) |-> <<kept[i]>>]

\* str.strip() on a text: blank lines at both ends go; <<>> is "".
StripText(text) ==
    LET full == {i \in 1..Len(text) : ~IsBlank(text[i])}
    IN  IF full = {} THEN <<>>
        ELSE SubSeq(text, CHOOSE i \in full : \A j \in full : i <= j,
                    CHOOSE i \in full : \A j \in full : j <= i)

\* chunker._split_into_turns: a turn starts at every line that begins with a
\* speaker label, the text before the first label is a turn of its own, each
\* turn is stripped and an empty one is left out.
SplitIntoTurns(text) ==
    LET labelled == {i \in 1..Len(text) : text[i].speaker}
        starts == IF labelled = {} THEN {} ELSE labelled \cup {1}
        End(i) == IF \E j \in starts : j > i
                  THEN (CHOOSE j \in starts :
                            j > i /\ \A k \in starts : k > i => j <= k) - 1
                  ELSE Len(text)
        order == SelectSeq([i \in 1..Len(text) |-> i], LAMBDA i : i \in starts)
        turns == [k \in 1..Len(order) |->
                     StripText(SubSeq(text, order[k], End(order[k])))]
    IN  IF labelled = {} THEN <<text>>
        ELSE SelectSeq(turns, LAMBDA t : t # <<>>)

\* Faulty variant: chunk_index counts from 1.
AppendChunkFromOne(chunks, current_lines) ==
    Append(chunks, [chunk_index |-> Len(chunks) + 1,
                    text |-> Concat(current_lines),
                    token_count |-> CountTokens(Concat(current_lines))])

\* chunks.append({"chunk_index": len(chunks), "text": "\n".join(
\* current_lines), "token_count": count_tokens(chunk_text)})
AppendChunk(chunks, current_lines) ==
    Append(chunks, [chunk_index |-> Len(chunks),
                    text |-> Concat(current_lines),
                    token_count |-> CountTokens(Concat(current_lines))])

\* The buffer of chunk_transcript: chunks, current_lines, current_tokens.
EmptyBuffer == [chunks |-> <<>>, current_lines |-> <<>>, current_tokens |-> 0]

\* Faulty variant: the buffer is emptied without its chunk being appended.
FlushDiscards(acc) ==
    [chunks |-> acc.chunks, current_lines |-> <<>>, current_tokens |-> 0]

\* The buffer becomes a chunk (lines 77-84, 91-98, 104-111).
Flush(acc) ==
    [chunks |-> AppendChunk(acc.chunks, acc.current_lines),
     current_lines |-> <<>>, current_tokens |-> 0]

\* Greedy accumulation (lines 89-100 and 103-114): the buffer is flushed
\* when the unit would take it over max_tokens, then the unit joins it.
AddUnit(acc, unit, max_tokens) ==
    LET unit_tokens == CountTokens(unit)
        start == IF acc.current_tokens + unit_tokens > max_tokens
                    /\ acc.current_lines # <<>>
                 THEN Flush(acc) ELSE acc
    IN  [start EXCEPT !.current_lines = Append(@, unit),
                      !.current_tokens = @ + unit_tokens]

RECURSIVE AddUnits(_, _, _)
AddUnits(acc, units, max_tokens) ==
    IF units = <<>> THEN acc
    ELSE AddUnits(AddUnit(acc, Head(units), max_tokens), Tail(units), max_tokens)

RECURSIVE ChunkLoop(_, _, _)
\* The loop over the turns (lines 70-114): a turn over max_tokens flushes
\* the buffer and is accumulated line by line.
ChunkLoop(acc, turns, max_tokens) ==
    IF turns = <<>> THEN acc
    ELSE LET turn == Head(turns)
         IN  ChunkLoop(
                 IF CountTokens(turn) > max_tokens
                 THEN AddUnits(IF acc.current_lines # <<>> THEN Flush(acc)
                               ELSE acc,
                               SplitIntoLines(turn), max_tokens)
                 ELSE AddUnit(acc, turn, max_tokens),
                 Tail(turns), max_tokens)

\* The units chunk_transcript accumulates: the turns, or the lines when
\* there is at most one turn.
UnitsOf(text) ==
    LET turns == SplitIntoTurns(text)
    IN  IF Len(turns) <= 1 THEN SplitIntoLines(text) ELSE turns

\* chunker.chunk_transcript(transcript_id, text, max_tokens).
ChunkTranscript(text, max_tokens) ==
    IF CountTokens(text) <= max_tokens
    THEN <<[chunk_index |-> 0, text |-> text,
            token_count |-> CountTokens(text)]>>
    ELSE LET acc == ChunkLoop(EmptyBuffer, UnitsOf(text), max_tokens)
         IN  IF acc.current_lines # <<>> THEN Flush(acc).chunks
             ELSE acc.chunks

\* ------------------------------------------------ the embedding chunker
\* embedding_agent.py: tokens per chunk, and tokens carried from one chunk
\* into the next.
CHUNK_SIZE == 800
CHUNK_OVERLAP == 150

\* A text is the sequence of its segments (its speaker turns, or its
\* non-blank lines when it has at most one turn), a segment the sequence of
\* its sentences as re.split(r"(?<=[.!?])\s+") cuts them, a sentence its
\* number of tokens. A chunk is the sequence of the pieces joined into it,
\* each piece (a segment or a sentence) by its number of tokens.
RECURSIVE SumTokens(_)
SumTokens(pieces) ==
    IF pieces = <<>> THEN 0 ELSE Head(pieces) + SumTokens(Tail(pieces))

\* _count_tokens of every segment of a text.
SegmentTokens(text) == [k \in 1..Len(text) |-> SumTokens(text[k])]

RECURSIVE OverlapFrom(_, _, _)
\* The loop of _compute_overlap over reversed(segments), at segment k.
OverlapFrom(segments, k, acc) ==
    IF k = 0 THEN acc
    ELSE IF acc.tokens + segments[k] > CHUNK_OVERLAP THEN acc
    ELSE OverlapFrom(segments, k - 1,
                     [segments |-> <<segments[k]>> \o acc.segments,
                      tokens |-> acc.tokens + segments[k]])

\* _compute_overlap: the last segments that fit within CHUNK_OVERLAP.
ComputeOverlap(segments) ==
    OverlapFrom(segments, Len(segments), [segments |-> <<>>, tokens |-> 0])

\* chunks.append("\n".join(current_segments)) followed by
\* current_segments, current_tokens = _compute_overlap(current_segments).
EmbedFlush(acc) ==
    LET kept == ComputeOverlap(acc.current_segments)
    IN  [chunks |-> Append(acc.chunks, acc.current_segments),
         current_segments |-> kept.segments,
         current_tokens |-> kept.tokens]

\* One piece of the greedy accumulation (lines 233-237 and 240-245): flush
\* when the piece does not fit and the buffer is not empty, then append.
EmbedAdd(acc, tokens) ==
    LET base == IF /\ acc.current_tokens + tokens > CHUNK_SIZE
                   /\ acc.current_segments # <<>>
                THEN EmbedFlush(acc) ELSE acc
    IN  [base EXCEPT !.current_segments = Append(@, tokens),
                     !.current_tokens = @ + tokens]

RECURSIVE EmbedAddAll(_, _)
EmbedAddAll(acc, pieces) ==
    IF pieces = <<>> THEN acc
    ELSE EmbedAddAll(EmbedAdd(acc, Head(pieces)), Tail(pieces))

\* The body of the loop over the segments: a segment above CHUNK_SIZE is
\* cut into its sentences after the buffer is flushed.
EmbedSegment(acc, segment) ==
    IF SumTokens(segment) > CHUNK_SIZE
    THEN EmbedAddAll(IF acc.current_segments # <<>> THEN EmbedFlush(acc)
                     ELSE acc,
                     segment)
    ELSE EmbedAdd(acc, SumTokens(segment))

RECURSIVE EmbedLoop(_, _)
EmbedLoop(acc, segments) ==
    IF segments = <<>> THEN acc
    ELSE EmbedLoop(EmbedSegment(acc, Head(segments)), Tail(segments))

\* chunk_text_for_embedding: the chunks of a text, each with its pieces.
ChunkTextForEmbedding(text) ==
    IF text = <<>> THEN <<>>
    ELSE IF SumTokens(SegmentTokens(text)) <= CHUNK_SIZE
    THEN <<SegmentTokens(text)>>
    ELSE LET acc == EmbedLoop([chunks |-> <<>>, current_segments |-> <<>>,
                               current_tokens |-> 0], text)
         IN  IF acc.current_segments # <<>>
             THEN Append(acc.chunks, acc.current_segments)
             ELSE acc.chunks

\* ----------------------------------------------------------- direct calls
\* How one chat.completions request of a direct call can end: an answer that
\* json.loads parses, a transient error (openai.RateLimitError,
\* APIConnectionError, APITimeoutError), a rejected request
\* (openai.BadRequestError), or content json.loads cannot parse.
Transient == {"rate_limit", "connection", "timeout"}
Failures == Transient \cup {"bad_request", "bad_json"}

RECURSIVE Retrying(_, _, _, _)
\* tenacity's @retry around a call: attempt k of at most max; an exception
\* of a retried class leads to the next attempt, any other propagates, and
\* the last attempt's failure is raised as RetryError.  outs[k] is how
\* attempt k ends.  Returns the number of requests sent and the outcome.
Retrying(outs, k, max, retried) ==
    IF outs[k] = "ok" THEN [calls |-> k, outcome |-> "ok"]
    ELSE IF outs[k] \notin retried THEN [calls |-> k, outcome |-> outs[k]]
    ELSE IF k >= max THEN [calls |-> k, outcome |-> "retry_error"]
    ELSE Retrying(outs, k + 1, max, retried)

\* batch_processing.process_single: @retry(stop_after_attempt(3), wait=...)
\* names no exception class, so tenacity retries on every exception.
ProcessSingle(outs) == Retrying(outs, 1, SINGLE_ATTEMPTS, Failures)

\* run_direct.process_chunk: @retry(stop_after_attempt(5), wait=...,
\* retry=retry_if_exception_type((RateLimitError, APIConnectionError,
\* APITimeoutError))).
ProcessChunk(outs) == Retrying(outs, 1, CHUNK_ATTEMPTS, Transient)

\* fetch_transcripts(sample): .limit(sample) when sample is set.
FetchTranscripts(view, sample) ==
    IF sample # 0 THEN SubSeq(view, 1, Min(sample, Len(view))) ELSE view

\* ------------------------------------------------------------------ state
VARIABLES
    stateFile,   \* state.json
    mapFiles,    \* chunk-map files: path -> map
    jobs,        \* the provider's batch jobs; a job's id is its position
    sink,        \* transcript_insights: content_hash -> row
    now,         \* the clock: a tick per job submitted and per process ended
    pc,          \* position of the orchestrator process ("idle": none runs)
    opts,        \* arguments of the run: resume, model
    mode,        \* "batch", "resume", "direct", or "remaining" (the script)
    state,       \* the local state dict
    chunks,      \* all_chunks
    batch_idx,   \* loop index of _process_batch
    sub_chunks,  \* chunks of the sub-batch in hand
    jsonl_path,  \* path of its JSONL (the timestamp in its name)
    batch_id,    \* the job in hand
    model,       \* model in use
    result,      \* what poll_batch returned
    all_rows,    \* rows parsed from the results
    ins,         \* insert_insights: offset of the batch, row in hand, inserted
    stats,       \* the summary dict
    outcome,     \* how the last run ended
    runJobs,     \* history: jobs this run submitted, in order
    runDone,     \* history: jobs this run ingested and cleared
    firstCall,   \* history: this run's first request to the provider
    direct_i     \* loop index of _process_direct

\* The concurrent direct processor (run_direct.py) and the parser's feature
\* sets.
VARIABLES
    main_pc,      \* position of main: "idle", "start", "pool", "done"
    all_chunks,   \* the chunks main submitted to the executor, in order
    queue_next,   \* position of the next chunk the executor hands out
    worker,       \* per chunk: the call of process_and_insert on it
    lock,         \* _lock: 0 when free, else the chunk whose call holds it
    direct_stats, \* _stats
    features,     \* the parser's _valid_features and _new_features
    table,        \* transcript_insights as the direct processor writes it
    saved,        \* what main gave to save_state
    registered,   \* history: the codes given to insert_new_feature
    handed        \* history: how often each chunk was handed to a worker

\* A call of a function of the pipeline: its arguments and what it returned.
VARIABLES
    call,
    ret

poolVars == <<main_pc, all_chunks, queue_next, worker, lock, direct_stats,
              features, table, saved, registered, handed>>
callVars == <<call, ret>>
outside == <<poolVars, callVars>>

orchVars == <<stateFile, mapFiles, jobs, sink, now, pc, opts, mode, state,
              chunks, batch_idx, sub_chunks, jsonl_path, batch_id, model,
              result, all_rows, ins, stats, outcome, runJobs, runDone,
              firstCall, direct_i>>

vars == <<orchVars, poolVars, callVars>>

persistent == <<stateFile, mapFiles, jobs, sink, now>>
\* Everything of the orchestrator but state.json.
orchButState == <<mapFiles, jobs, sink, now, pc, opts, mode, state, chunks,
                  batch_idx, sub_chunks, jsonl_path, batch_id, model, result,
                  all_rows, ins, stats, outcome, runJobs, runDone, firstCall, direct_i>>
history == <<opts, runJobs, runDone, firstCall>>

\* The pending job id state.json holds, 0 when it holds none.
PendingOf(file) == IF file.kind = "json" THEN file.dict.pending_batch_id ELSE 0

\* The processes that have ended so far: every tick of the clock that is
\* not a submission.
RunsEnded == now - 1 - Len(jobs)

ZeroStats ==
    [transcripts |-> 0, chunks |-> 0, insights_parsed |-> 0,
     insights_inserted |-> 0, errors |-> 0]
NoCall == [kind |-> "none", id |-> 0]
NoIns == [offset |-> 0, at |-> 0, inserted |-> 0]
NoOpts == [resume |-> FALSE, model |-> "", sample |-> 0, dry_run |-> FALSE]

\* The process's local variables when no process runs.
LocalsCleared ==
    /\ mode' = "batch"
    /\ state' = EmptyDict
    /\ chunks' = <<>>
    /\ batch_idx' = 0
    /\ sub_chunks' = <<>>
    /\ jsonl_path' = 0
    /\ batch_id' = 0
    /\ model' = ""
    /\ result' = NoResult
    /\ all_rows' = <<>>
    /\ ins' = NoIns
    /\ direct_i' = 0

\* The run's history when no process runs.
HistoryCleared ==
    /\ opts' = NoOpts
    /\ runJobs' = <<>>
    /\ runDone' = {}
    /\ firstCall' = NoCall

\* No orchestrator process has run yet.
InitIdle ==
    /\ pc = "idle"
    /\ opts = NoOpts
    /\ mode = "batch"
    /\ state = EmptyDict
    /\ chunks = <<>>
    /\ batch_idx = 0
    /\ sub_chunks = <<>>
    /\ jsonl_path = 0
    /\ batch_id = 0
    /\ model = ""
    /\ result = NoResult
    /\ all_rows = <<>>
    /\ ins = NoIns
    /\ stats = ZeroStats
    /\ outcome = "none"
    /\ runJobs = <<>>
    /\ runDone = {}
    /\ firstCall = NoCall
    /\ direct_i = 0

NoCallYet == [fn |-> "none"]
NoRet == [done |-> FALSE]
Returned(v) == [done |-> TRUE, val |-> v]

\* No function is being called.
InitCalls == call = NoCallYet /\ ret = NoRet

\* The direct processor has not started.
ZeroDirectStats ==
    [parsed |-> 0, inserted |-> 0, errors |-> 0, processed_chunks |-> 0]

InitPool ==
    /\ main_pc = "idle"
    /\ all_chunks = <<>>
    /\ queue_next = 1
    /\ worker = <<>>
    /\ lock = 0
    /\ direct_stats = ZeroDirectStats
    /\ features = SeedFeatureSets
    /\ table = <<>>
    /\ saved = <<>>
    /\ registered = <<>>
    /\ handed = <<>>

\* Nothing has run yet: no state.json, no job, an empty table.
InitOrchestrator ==
    /\ stateFile = MissingFile
    /\ mapFiles = <<>>
    /\ jobs = <<>>
    /\ sink = <<>>
    /\ now = 1
    /\ InitIdle

Init == InitOrchestrator /\ InitPool /\ InitCalls

\* ---------------------------------------------------------------- actions
\* The process ends: run_pipeline has returned stats to main, or has raised.
Ended(how, st) ==
    /\ pc' = "done"
    /\ outcome' = how
    /\ stats' = st

\* _submit_and_process_single_batch has returned to _process_batch: the loop
\* goes on with the next sub-batch (after time.sleep(5)) or ends.
NextBatch(st, done) ==
    /\ runDone' = done
    /\ UNCHANGED <<mode, chunks, model, opts, runJobs, firstCall>>
    /\ IF /\ mode = "batch"
          /\ Len(chunks) > Ceiling
          /\ batch_idx + 1 < NumBatches(Len(chunks), Ceiling)
       THEN /\ pc' = "submit"
            /\ batch_idx' = batch_idx + 1
            /\ stats' = st
            /\ state' = EmptyDict
            /\ sub_chunks' = <<>>
            /\ jsonl_path' = 0
            /\ batch_id' = 0
            /\ result' = NoResult
            /\ all_rows' = <<>>
            /\ ins' = NoIns
            /\ UNCHANGED outcome
       ELSE /\ Ended("returned", st)
            /\ UNCHANGED <<state, batch_idx, sub_chunks, jsonl_path, batch_id,
                           result, all_rows, ins>>

\* Faulty variant: a job that did not complete aborts the run.
AfterFailureAborts(st, done) ==
    /\ Ended("raised", st)
    /\ runDone' = done
    /\ UNCHANGED <<mode, chunks, model, opts, runJobs, firstCall,
                   state, batch_idx, sub_chunks, jsonl_path, batch_id, result,
                   all_rows, ins>>

\* Lines 316-318: after a job that did not complete, the call returns stats
\* to the loop of _process_batch.
AfterFailure(st, done) == NextBatch(st, done)

\* Faulty variant: the pending job is looked for after Steps 1 to 4, so a
\* resume run holds the chunks of the view.
ResumeChunksFetched(all) == all

\* run_pipeline, lines 82-87: _resume_batch is called before Step 1, so a
\* resume run fetches and chunks nothing.
ResumeChunks(all) == <<>>

\* Step 5 of run_pipeline: sample is tested before dry_run.
ProcessingMode(sample, dry_run) ==
    IF sample # 0 THEN "direct" ELSE IF dry_run THEN "dry_run" ELSE "batch"

\* run_pipeline up to Step 5: load the state when resuming, else fetch,
\* filter the processed transcripts, deduplicate and chunk.
StartRun(resume, m, view, sample, dry_run) ==
    /\ pc = "idle"
    /\ RunsEnded < MaxRuns
    /\ UNCHANGED <<persistent, outside>>
    /\ opts' = [resume |-> resume, model |-> m, sample |-> sample,
                dry_run |-> dry_run]
    /\ runJobs' = <<>>
    /\ runDone' = {}
    /\ firstCall' = NoCall
    /\ batch_idx' = 0
    /\ sub_chunks' = <<>>
    /\ result' = NoResult
    /\ all_rows' = <<>>
    /\ ins' = NoIns
    /\ direct_i' = 0
    /\ LET loaded == IF resume THEN LoadState(stateFile)
                     ELSE [raised |-> FALSE, dict |-> EmptyDict]
           fetched == FetchTranscripts(view, sample)
           remaining == IF sample # 0 THEN fetched
                        ELSE SelectSeqNotIn(fetched, ProcessedIds(sink))
           unique == Dedup(remaining, {})
           all == AllChunks(unique)
           fresh == /\ state' = EmptyDict
                    /\ batch_id' = 0
                    /\ model' = m
       IN  IF loaded.raised
           THEN /\ Ended("raised", ZeroStats)
                /\ fresh
                /\ mode' = "batch"
                /\ chunks' = <<>>
                /\ jsonl_path' = 0
           ELSE IF ShouldResume(resume, loaded.dict)
           THEN /\ pc' = "polling"
                /\ outcome' = "running"
                /\ stats' = ZeroStats
                /\ mode' = "resume"
                /\ state' = loaded.dict
                /\ batch_id' = loaded.dict.pending_batch_id
                /\ model' = ResumeModel(loaded.dict, m)
                /\ chunks' = ResumeChunks(all)
                /\ jsonl_path' = 0
           ELSE IF fetched = <<>>
           THEN /\ Ended("returned", ZeroStats)
                /\ fresh
                /\ mode' = "batch"
                /\ chunks' = <<>>
                /\ jsonl_path' = 0
           ELSE IF all = <<>>
           THEN /\ Ended("returned", [ZeroStats EXCEPT !.transcripts = Len(fetched)])
                /\ fresh
                /\ mode' = "batch"
                /\ chunks' = <<>>
                /\ jsonl_path' = 0
           ELSE /\ stats' = [ZeroStats EXCEPT !.transcripts = Len(fetched),
                                              !.chunks = Len(all)]
                /\ fresh
                /\ chunks' = all
                /\ mode' = ProcessingMode(sample, dry_run)
                /\ IF sample # 0
                   THEN pc' = "direct" /\ outcome' = "running" /\ jsonl_path' = 0
                   ELSE IF dry_run
                   THEN pc' = "done" /\ outcome' = "returned" /\ jsonl_path' = now
                   ELSE pc' = "submit" /\ outcome' = "running" /\ jsonl_path' = 0

\* _process_direct: the loop goes on with the next chunk, or returns stats.
NextChunk(st) ==
    /\ direct_i' = direct_i + 1
    /\ all_rows' = <<>>
    /\ ins' = NoIns
    /\ IF direct_i + 1 < Len(chunks)
       THEN /\ stats' = st
            /\ pc' = "direct"
            /\ UNCHANGED outcome
       ELSE Ended("returned", st)
    /\ UNCHANGED <<mode, state, chunks, batch_idx, sub_chunks, jsonl_path,
                   batch_id, model, result, opts, runJobs, runDone>>

\* _process_direct, process_single for chunk direct_i.  outs is how its
\* attempts end; an exception is counted and the loop goes on.
DirectStep(outs) ==
    /\ pc = "direct"
    /\ firstCall' = IF firstCall.kind = "none"
                    THEN [kind |-> "direct", id |-> 0] ELSE firstCall
    /\ IF ProcessSingle(outs).outcome = "ok"
       THEN /\ pc' = "direct_parse"
            /\ UNCHANGED <<mode, state, chunks, batch_idx, sub_chunks,
                           jsonl_path, batch_id, model, result, all_rows, ins,
                           stats, outcome, opts, runJobs, runDone,
                           direct_i>>
       ELSE NextChunk([stats EXCEPT !.errors = @ + 1])
    /\ UNCHANGED <<persistent, outside>>

\* _process_direct, parse_response on the answer: its rows are counted as
\* parsed, and insert_insights is called when there are any.
DirectParse ==
    /\ pc = "direct_parse"
    /\ LET chunk == chunks[direct_i + 1]
           rows == ParseResponse(ResponseFor(chunk.custom_id),
                                 chunk.transcript_id, chunk.chunk_index,
                                 chunk.metadata, model, 0)
           st == [stats EXCEPT !.insights_parsed = @ + Len(rows)]
       IN  IF rows = <<>> THEN NextChunk(st)
           ELSE /\ all_rows' = rows
                /\ ins' = NoIns
                /\ stats' = st
                /\ pc' = "insert"
                /\ UNCHANGED <<mode, state, chunks, batch_idx, sub_chunks,
                               jsonl_path, batch_id, model, result, outcome,
                               opts, runJobs, runDone, direct_i>>
    /\ UNCHANGED <<persistent, firstCall, outside>>

\* The process has ended; the next run starts later, from the persistent
\* state.
Exit ==
    /\ pc = "done"
    /\ pc' = "idle"
    /\ outcome' = "none"
    /\ stats' = ZeroStats
    /\ LocalsCleared
    /\ HistoryCleared
    /\ now' = now + 1
    /\ UNCHANGED <<stateFile, mapFiles, jobs, sink>>
    /\ UNCHANGED outside

\* create_batch_jsonl and submit_batch for the sub-batch in hand: the JSONL
\* is named after the clock, and the provider creates the job.
SubmitBatch ==
    /\ pc = "submit"
    /\ mode = "batch"
    /\ Len(jobs) < MaxJobs
    /\ LET sub == BatchChunks(chunks, batch_idx, Ceiling)
           id == Len(jobs) + 1
       IN  /\ jobs' = Append(jobs, NewJob(sub, model))
           /\ sub_chunks' = sub
           /\ jsonl_path' = now
           /\ now' = now + 1
           /\ batch_id' = id
           /\ runJobs' = Append(runJobs, id)
           /\ firstCall' = IF firstCall.kind = "none"
                           THEN [kind |-> "submit", id |-> id] ELSE firstCall
    /\ pc' = "save_map"
    /\ UNCHANGED <<stateFile, mapFiles, sink, opts, mode, state, chunks,
                   batch_idx, model, result, all_rows, ins, stats, outcome,
                   runDone>>
    /\ UNCHANGED <<direct_i, outside>>

\* _submit_and_process_single_batch, lines 289-302: the state dict is
\* built and the chunk map is written to its file.
WriteChunkMap ==
    /\ pc = "save_map"
    /\ mapFiles' = (jsonl_path :> ChunkMapOf(sub_chunks)) @@ mapFiles
    /\ state' = PendingState(batch_id, jsonl_path, model, Len(sub_chunks), now)
    /\ pc' = "save_pending"
    /\ UNCHANGED <<stateFile, jobs, sink, now, mode, chunks, batch_idx,
                   sub_chunks, jsonl_path, batch_id, model, result, all_rows,
                   ins, stats, outcome, history>>
    /\ UNCHANGED <<direct_i, outside>>

\* _submit_and_process_single_batch, line 304: save_state(state).
SavePending ==
    /\ pc = "save_pending"
    /\ mode = "batch"
    /\ stateFile' = SaveState(state)
    /\ pc' = "polling"
    /\ UNCHANGED <<mapFiles, jobs, sink, now, mode, state, chunks, batch_idx,
                   sub_chunks, jsonl_path, batch_id, model, result, all_rows,
                   ins, stats, outcome, history>>
    /\ UNCHANGED <<direct_i, outside>>

\* poll_batch: one batches.retrieve; return on a terminal status, else sleep.
PollRetrieve ==
    /\ pc = "polling"
    /\ firstCall' = IF firstCall.kind = "none"
                    THEN [kind |-> "poll", id |-> batch_id] ELSE firstCall
    /\ IF IsTerminal(jobs[batch_id].status)
       THEN /\ result' = PollResult(batch_id, jobs[batch_id])
            /\ pc' = IF jobs[batch_id].status = "completed"
                     THEN "download" ELSE "batch_failed"
       ELSE /\ pc' = "poll_sleep"
            /\ UNCHANGED result
    /\ UNCHANGED <<persistent, opts, mode, state, chunks, batch_idx,
                   sub_chunks, jsonl_path, batch_id, model, all_rows, ins,
                   stats, outcome, runJobs, runDone>>
    /\ UNCHANGED <<direct_i, outside>>

\* A sleep that never returns: the faulty variant of PollSleep.
PollSleepHangs == pc = "poll_sleep" /\ UNCHANGED vars

\* time.sleep(poll_interval) is over.
PollSleep ==
    /\ pc = "poll_sleep"
    /\ pc' = "polling"
    /\ UNCHANGED <<persistent, mode, state, chunks, batch_idx, sub_chunks,
                   jsonl_path, batch_id, model, result, all_rows, ins, stats,
                   outcome, history>>
    /\ UNCHANGED <<direct_i, outside>>

\* _submit_and_process_single_batch, lines 310-318: the job ended without
\* completing.
BatchFailed ==
    /\ pc = "batch_failed"
    /\ mode = "batch"
    /\ stateFile' = SaveState(FailedState(state, result.status))
    /\ AfterFailure([stats EXCEPT !.errors = @ + result.failed], runDone)
    /\ UNCHANGED <<mapFiles, jobs, sink, now>>
    /\ UNCHANGED <<direct_i, outside>>

\* _resume_batch, lines 339-342.
ResumeFailed ==
    /\ pc = "batch_failed"
    /\ mode = "resume"
    /\ Ended("returned", [stats EXCEPT !.errors = result.failed])
    /\ UNCHANGED <<persistent, mode, state, chunks, batch_idx, sub_chunks,
                   jsonl_path, batch_id, model, result, all_rows, ins,
                   history>>
    /\ UNCHANGED <<direct_i, outside>>

\* _process_batch_results, lines 358-396: load the chunk map, download the
\* results, parse every usable answer.
ProcessResults ==
    /\ pc = "download"
    /\ mode # "remaining"
    /\ LET chunk_map == LoadChunkMap(state, mapFiles)
           results == DownloadBatchResults(jobs[result.id])
           rows == RowsOfResults(results, chunk_map, model, result.id)
       IN  /\ all_rows' = rows
           /\ stats' = [stats EXCEPT !.chunks = Len(results),
                                     !.errors = @ + NoneCount(results),
                                     !.insights_parsed = Len(rows)]
           /\ pc' = IF rows # <<>> THEN "insert" ELSE "clear"
    /\ ins' = NoIns
    /\ UNCHANGED <<persistent, mode, state, chunks, batch_idx, sub_chunks,
                   jsonl_path, batch_id, model, result, outcome, history>>
    /\ UNCHANGED <<direct_i, outside>>

\* _process_batch_results, line 404: the pending state is replaced by the
\* last-completed marker.
ClearState ==
    /\ pc = "clear"
    /\ stateFile' = SaveState(CompletedState(result.id, now))
    /\ NextBatch(stats, runDone \cup {result.id})
    /\ UNCHANGED <<mapFiles, jobs, sink, now>>
    /\ UNCHANGED <<direct_i, outside>>

\* ------------------------------------------------ run_remaining_batches
\* The chunks of the requests in the JSONL of a part.
PartChunks(part) == AllChunks(<<part>>)

\* main, lines 34-54: the chunk map is read (open raises when the file is
\* not there), and the loop starts with part 1, whose job is RESUME_BATCH:
\* the job that was submitted with the JSONL the map belongs to.
StartRemaining ==
    /\ pc = "idle"
    /\ RunsEnded < MaxRuns
    /\ UNCHANGED <<persistent, outside>>
    /\ opts' = NoOpts
    /\ runJobs' = <<>>
    /\ runDone' = {}
    /\ firstCall' = NoCall
    /\ mode' = "remaining"
    /\ state' = EmptyDict
    /\ chunks' = <<>>
    /\ sub_chunks' = <<>>
    /\ result' = NoResult
    /\ all_rows' = <<>>
    /\ ins' = NoIns
    /\ direct_i' = 0
    /\ model' = MODEL
    /\ IF CHUNK_MAP_PATH \notin DOMAIN mapFiles
       THEN /\ Ended("raised", ZeroStats)
            /\ batch_idx' = 0
            /\ batch_id' = 0
            /\ jsonl_path' = 0
       ELSE /\ pc' = "save_pending"
            /\ outcome' = "running"
            /\ stats' = ZeroStats
            /\ batch_idx' = 1
            /\ batch_id' = RESUME_BATCH
            /\ jsonl_path' = CHUNK_MAP_PATH

\* The loop of main goes on with the next part, or ends with the summary.
NextPart(st) ==
    /\ stats' = st
    /\ result' = NoResult
    /\ all_rows' = <<>>
    /\ ins' = NoIns
    /\ UNCHANGED <<mode, state, chunks, sub_chunks, jsonl_path, model, outcome,
                   history>>
    /\ IF batch_idx < Parts
       THEN pc' = "submit" /\ batch_idx' = batch_idx + 1 /\ batch_id' = 0
       ELSE pc' = "summary" /\ UNCHANGED <<batch_idx, batch_id>>

\* main, line 57: submit_batch for the JSONL of a part.
SubmitPart ==
    /\ pc = "submit"
    /\ mode = "remaining"
    /\ Len(jobs) < MaxJobs
    /\ jobs' = Append(jobs, NewJob(PartChunks(batch_idx), MODEL))
    /\ batch_id' = Len(jobs) + 1
    /\ runJobs' = Append(runJobs, Len(jobs) + 1)
    /\ firstCall' = IF firstCall.kind = "none"
                    THEN [kind |-> "submit", id |-> Len(jobs) + 1]
                    ELSE firstCall
    /\ now' = now + 1
    /\ pc' = "save_pending"
    /\ UNCHANGED <<stateFile, mapFiles, sink, opts, mode, state, chunks,
                   batch_idx, sub_chunks, jsonl_path, model, result, all_rows,
                   ins, stats, outcome, runDone>>
    /\ UNCHANGED <<direct_i, outside>>

\* main, lines 60-65: save_state before poll_batch.
SavePart ==
    /\ pc = "save_pending"
    /\ mode = "remaining"
    /\ stateFile' = SaveState(PartState(batch_id, batch_idx))
    /\ pc' = "polling"
    /\ UNCHANGED <<mapFiles, jobs, sink, now, mode, state, chunks, batch_idx,
                   sub_chunks, jsonl_path, batch_id, model, result, all_rows,
                   ins, stats, outcome, history>>
    /\ UNCHANGED <<direct_i, outside>>

\* main, lines 71-74: the job of the part did not complete.
PartFailed ==
    /\ pc = "batch_failed"
    /\ mode = "remaining"
    /\ NextPart([stats EXCEPT !.errors = @ + result.failed])
    /\ UNCHANGED <<persistent>>
    /\ UNCHANGED <<direct_i, outside>>

\* main, lines 77-102: download the results of the part and parse every
\* usable answer, with the chunk map read at the start.
PartResults ==
    /\ pc = "download"
    /\ mode = "remaining"
    /\ LET results == DownloadBatchResults(jobs[result.id])
           rows == RowsOfResults(results, mapFiles[jsonl_path], MODEL, result.id)
           st == [stats EXCEPT !.errors = @ + NoneCount(results),
                               !.insights_parsed = @ + Len(rows)]
       IN  IF rows # <<>>
           THEN /\ all_rows' = rows
                /\ stats' = st
                /\ pc' = "insert"
                /\ ins' = NoIns
                /\ UNCHANGED <<mode, state, chunks, batch_idx, sub_chunks,
                               jsonl_path, batch_id, model, result, outcome,
                               history>>
           ELSE NextPart(st)
    /\ UNCHANGED persistent
    /\ UNCHANGED <<direct_i, outside>>

\* insert_insights has returned the number of rows the store took: what
\* its caller does with it (orchestrator.py 399-401 and 214-216,
\* run_remaining_batches.py 104-106).
InsertReturns(done) ==
    IF mode = "remaining"
    THEN /\ NextPart([stats EXCEPT !.insights_inserted = @ + done.inserted])
         /\ UNCHANGED direct_i
    ELSE IF mode = "direct"
    THEN /\ NextChunk([stats EXCEPT !.insights_inserted = @ + done.inserted])
         /\ UNCHANGED firstCall
    ELSE /\ pc' = "clear"
         /\ stats' = [stats EXCEPT !.insights_inserted = done.inserted]
         /\ ins' = [done EXCEPT !.offset = @ + BatchSize, !.at = 0]
         /\ UNCHANGED <<mode, state, chunks, batch_idx, sub_chunks, jsonl_path,
                        batch_id, model, result, all_rows, outcome, history,
                        direct_i>>

\* insert_insights, line 260: the loop goes on with the next batch, or the
\* function returns.
BatchDone(done) ==
    IF done.offset + BatchSize >= Len(all_rows) THEN InsertReturns(done)
    ELSE /\ ins' = [done EXCEPT !.offset = @ + BatchSize, !.at = 0]
         /\ pc' = "insert"
         /\ UNCHANGED <<stats, mode, state, chunks, batch_idx, sub_chunks,
                        jsonl_path, batch_id, model, result, all_rows, outcome,
                        history, direct_i>>

\* insert_insights, lines 260-268: the bulk upsert of the batch at offset.
\* It writes the batch, or it raises and the rows are tried one by one.
InsertStep(raises) ==
    /\ pc = "insert"
    /\ LET batch == Slice(all_rows, ins.offset, ins.offset + BatchSize)
       IN  IF raises
           THEN /\ pc' = "insert_row"
                /\ ins' = [ins EXCEPT !.at = ins.offset]
                /\ UNCHANGED <<sink, stats, mode, state, chunks,
                               batch_idx, sub_chunks, jsonl_path, batch_id,
                               model, result, all_rows, outcome, history,
                               direct_i>>
           ELSE /\ sink' = UpsertAll(sink, batch)
                /\ BatchDone([ins EXCEPT !.inserted = @ + Len(batch)])
    /\ UNCHANGED <<stateFile, mapFiles, jobs, now, outside>>

\* insert_insights, lines 272-279: the single upsert of the row at position
\* at of the fallback; a row whose upsert raises is logged and skipped.
InsertRow(raises) ==
    /\ pc = "insert_row"
    /\ LET row == all_rows[ins.at + 1]
           done == [ins EXCEPT !.at = @ + 1,
                               !.inserted = IF raises THEN @ ELSE @ + 1]
       IN  /\ sink' = IF raises THEN sink ELSE UpsertRow(sink, row)
           /\ IF done.at >= Min(ins.offset + BatchSize, Len(all_rows))
              THEN BatchDone(done)
              ELSE /\ ins' = done
                   /\ UNCHANGED <<pc, stats, mode, state, chunks, batch_idx,
                                  sub_chunks, jsonl_path, batch_id, model,
                                  result, all_rows, outcome, history, direct_i>>
    /\ UNCHANGED <<stateFile, mapFiles, jobs, now, outside>>

\* main, lines 121-126: the summary replaces the state of the last part.
SaveSummary ==
    /\ pc = "summary"
    /\ stateFile' = SaveState(AllPartsState(stats.insights_parsed,
                                            stats.insights_inserted, now))
    /\ Ended("returned", stats)
    /\ UNCHANGED <<mapFiles, jobs, sink, now, mode, state, chunks, batch_idx,
                   sub_chunks, jsonl_path, batch_id, model, result, all_rows,
                   ins, history>>
    /\ UNCHANGED <<direct_i, outside>>

\* The process is killed.
Crash ==
    /\ pc \notin {"idle", "done"}
    /\ pc' = "idle"
    /\ outcome' = "none"
    /\ stats' = ZeroStats
    /\ LocalsCleared
    /\ HistoryCleared
    /\ now' = now + 1
    /\ UNCHANGED <<stateFile, mapFiles, jobs, sink>>
    /\ UNCHANGED outside

\* The process is killed inside save_state, after open(path, "w") truncated
\* state.json.
CrashInSave ==
    /\ \/ pc \in {"save_pending", "clear", "summary"}
       \/ pc = "batch_failed" /\ mode = "batch"
    /\ stateFile' = CorruptFile
    /\ pc' = "idle"
    /\ outcome' = "none"
    /\ stats' = ZeroStats
    /\ LocalsCleared
    /\ HistoryCleared
    /\ now' = now + 1
    /\ UNCHANGED <<mapFiles, jobs, sink>>
    /\ UNCHANGED outside

\* What the output file of a completed job of n requests can hold: an
\* answer for every request, or an unusable first line, an answer for the
\* second request and no line for the third.
OutcomeChoices(n) ==
    {[i \in 1..n |-> "ok"],
     [i \in 1..n |-> IF i = 1 THEN "none" ELSE IF i = 3 THEN "absent" ELSE "ok"]}

\* How a job of n requests can end without completing: the status and
\* request_counts.failed.
FailureChoices(n) ==
    {<<"failed", 0>>, <<"expired", n - 1>>, <<"cancelled", n>>}

\* The provider's verdict on a job is drawn while the orchestrator waits for
\* it: what happens to a job between two retrieves is all a poll can see.
Awaited(j) == pc \in {"polling", "poll_sleep"} /\ batch_id = j

\* The provider completes a job: every request has an outcome, and
\* request_counts.failed counts the failed ones.
JobCompletes(j, outs) ==
    /\ Awaited(j)
    /\ jobs[j].status = "in_progress"
    /\ jobs' = [jobs EXCEPT ![j].status = "completed", ![j].outcomes = outs,
                            ![j].failed = CountOf(outs, "absent")]
    /\ UNCHANGED <<stateFile, mapFiles, sink, now, pc, mode, state, chunks,
                   batch_idx, sub_chunks, jsonl_path, batch_id, model, result,
                   all_rows, ins, stats, outcome, history>>
    /\ UNCHANGED <<direct_i, outside>>

\* The provider ends a job failed, expired or cancelled.
JobFails(j, status, failed) ==
    /\ Awaited(j)
    /\ jobs[j].status = "in_progress"
    /\ jobs' = [jobs EXCEPT ![j].status = status, ![j].failed = failed]
    /\ UNCHANGED <<stateFile, mapFiles, sink, now, pc, mode, state, chunks,
                   batch_idx, sub_chunks, jsonl_path, batch_id, model, result,
                   all_rows, ins, stats, outcome, history>>
    /\ UNCHANGED <<direct_i, outside>>

\* The runs that are started: resume or not, --model, and what the view
\* returns; the model option differs from the default in a resume run.
RunInputs ==
    {<<FALSE, DefaultModel, v, 0, FALSE>> : v \in Views}
        \cup {<<TRUE, DefaultModel, <<2, 1, 2>>, 0, FALSE>>,
              <<TRUE, "gpt-4o", <<>>, 0, FALSE>>,
              <<FALSE, DefaultModel, <<2, 1>>, 1, TRUE>>,
              <<FALSE, DefaultModel, <<1, 2>>, 0, TRUE>>}

\* How the attempts of a direct call of the orchestrator end.
DirectChoices ==
    {<<"ok", "ok", "ok">>, <<"rate_limit", "ok", "ok">>,
     <<"bad_request", "bad_request", "bad_request">>}

Next ==
    \/ \E inp \in RunInputs : StartRun(inp[1], inp[2], inp[3], inp[4], inp[5])
    \/ Exit
    \/ \E outs \in DirectChoices : DirectStep(outs)
    \/ DirectParse
    \/ SubmitBatch
    \/ WriteChunkMap
    \/ SavePending
    \/ PollRetrieve
    \/ PollSleep
    \/ BatchFailed
    \/ ResumeFailed
    \/ ProcessResults
    \/ \E raises \in BOOLEAN : InsertStep(raises)
    \/ \E raises \in BOOLEAN : InsertRow(raises)
    \/ ClearState
    \/ StartRemaining
    \/ SubmitPart
    \/ SavePart
    \/ PartFailed
    \/ PartResults
    \/ SaveSummary
    \/ Crash
    \/ CrashInSave
    \/ \E j \in 1..Len(jobs) :
           \E outs \in OutcomeChoices(Len(jobs[j].chunks)) :
               JobCompletes(j, outs)
    \/ \E j \in 1..Len(jobs) :
           \E f \in FailureChoices(Len(jobs[j].chunks)) :
               JobFails(j, f[1], f[2])

Spec == Init /\ [][Next]_vars

\* --------------------------------------------------------------- polling
\* poll_batch on its own: the runs up to the return of poll_batch, with the
\* provider ending the job while it is awaited. The process may be killed at
\* any step; as long as it lives, the loop of poll_batch goes on (the
\* retrieve is issued, the sleep ends), which is what the fairness
\* conditions say.
PollInputs == {inp \in RunInputs : inp[4] = 0 /\ ~inp[5]}

NextPoll ==
    \/ \E inp \in PollInputs : StartRun(inp[1], inp[2], inp[3], inp[4], inp[5])
    \/ Exit
    \/ SubmitBatch
    \/ WriteChunkMap
    \/ SavePending
    \/ PollRetrieve
    \/ PollSleep
    \/ Crash
    \/ CrashInSave
    \/ \E j \in 1..Len(jobs) :
           \E outs \in OutcomeChoices(Len(jobs[j].chunks)) :
               JobCompletes(j, outs)
    \/ \E j \in 1..Len(jobs) :
           \E f \in FailureChoices(Len(jobs[j].chunks)) :
               JobFails(j, f[1], f[2])

SpecPoll ==
    /\ Init
    /\ [][NextPoll]_vars
    /\ WF_vars(PollRetrieve)
    /\ WF_vars(PollSleep)

\* ------------------------------------------------------- function calls
\* The functions of the pipeline that are called on their own: each
\* behaviour of SpecCalls is one call, with arguments drawn from the sets
\* below.
AttemptOutcomes == {"ok"} \cup Failures

\* How up to CHUNK_ATTEMPTS attempts of a direct call end.
AttemptRuns == [1..CHUNK_ATTEMPTS -> AttemptOutcomes]

RetryCalls ==
    {[fn |-> f, outs |-> o] : f \in {"process_single", "process_chunk"},
                              o \in AttemptRuns}

CallProcessSingle ==
    /\ call.fn = "process_single"
    /\ ~ret.done
    /\ ret' = Returned(ProcessSingle(call.outs))
    /\ UNCHANGED <<call, orchVars, poolVars>>

CallProcessChunk ==
    /\ call.fn = "process_chunk"
    /\ ~ret.done
    /\ ret' = Returned(ProcessChunk(call.outs))
    /\ UNCHANGED <<call, orchVars, poolVars>>

\* Longest list of insights of an answer.
MaxInsights == 2

\* The insights answers are made of: every insight type, with known and
\* unknown codes, modules and feature names, two pairs that agree on the
\* hashed fields, and two that violate the schema.
InsightPool ==
    {Insight("pain", "fragmented_tools", "", "s1", 9, ""),
     Insight("pain", "fragmented_tools", "bogus", "s1", 5, ""),
     Insight("pain", "unknown", "chat", "s2", 5, ""),
     Insight("product_gap", "missing_feature", "", "s3", 5, ""),
     Insight("product_gap", "missing_feature", "bogus", "s4", 5, ""),
     FeatureInsight("product_gap", "missing_feature", "chat", "s5",
                    <<"A", " ", "b">>),
     FeatureInsight("product_gap", "missing_feature", "chat", "s6", <<"a">>),
     Insight("competitive_signal", "other", "", "s7", 6, "evaluating"),
     Insight("competitive_signal", "evaluating", "chat", "s7", 3, ""),
     Insight("competitive_signal", "other", "", "s8", 6, "other"),
     FeatureInsight("faq", "pricing", "chat", "s9", <<"a", "_", "b">>),
     Insight("deal_friction", "budget", "", "s10", 10, ""),
     Insight("other", "budget", "", "s11", 5, ""),
     Insight("faq", "pricing", "", "s12", 11, "")}

RECURSIVE ListsUpTo(_, _)
\* The sequences of at most n members of S.
ListsUpTo(S, n) ==
    IF n = 0 THEN {<<>>}
    ELSE LET shorter == ListsUpTo(S, n - 1)
         IN  shorter \cup {Append(l, x) : l \in shorter, x \in S}

\* The data of an answer: an object with a list of insights, an object
\* without one, or no object.
AnswerData ==
    {[object |-> TRUE, has_insights |-> TRUE, insights |-> l] :
         l \in ListsUpTo(InsightPool, MaxInsights)}
        \cup {[object |-> TRUE, has_insights |-> FALSE, insights |-> <<>>],
              [object |-> FALSE, has_insights |-> FALSE, insights |-> <<>>]}

\* What parse_response is given: data (a dict), text that is the JSON of
\* data, or text that is not JSON.
RawAnswers ==
    {[text |-> t, parses |-> TRUE, data |-> d] :
         t \in BOOLEAN, d \in AnswerData}
        \cup {[text |-> TRUE, parses |-> FALSE,
               data |-> [object |-> FALSE, has_insights |-> FALSE,
                         insights |-> <<>>]]}

\* The other arguments of parse_response and the feature sets it finds.
ParseContexts ==
    {[transcript_id |-> 1, chunk_index |-> 0, model |-> DefaultModel,
      batch |-> 0, client |-> TRUE, feats |-> SeedFeatureSets],
     [transcript_id |-> 2, chunk_index |-> 1, model |-> "gpt-4o",
      batch |-> 1, client |-> TRUE, feats |-> SeedFeatureSets],
     [transcript_id |-> 1, chunk_index |-> 0, model |-> DefaultModel,
      batch |-> 0, client |-> FALSE, feats |-> SeedFeatureSets],
     [transcript_id |-> 1, chunk_index |-> 0, model |-> DefaultModel,
      batch |-> 1, client |-> TRUE,
      feats |-> RegisterNewFeature(SeedFeatureSets, <<"a", "_", "b">>)]}

ParseCalls ==
    {[fn |-> "parse_response", raw |-> r, ctx |-> c] :
         r \in RawAnswers, c \in ParseContexts}

\* parse_response(raw, ...) under the context ctx.
ParseUnder(raw, ctx) ==
    ParseRaw(raw, ctx.transcript_id, ctx.chunk_index,
             Metadata(ctx.transcript_id), ctx.model, ctx.batch, ctx.client,
             ctx.feats)

CallParseResponse ==
    /\ call.fn = "parse_response"
    /\ ~ret.done
    /\ ret' = Returned(ParseUnder(call.raw, call.ctx))
    /\ UNCHANGED <<call, orchVars, poolVars>>

\* The rows given to insert_insights: two with one content_hash, one other.
RowPool ==
    {ParseUnder([text |-> FALSE, parses |-> TRUE,
                 data |-> [object |-> TRUE, has_insights |-> TRUE,
                           insights |-> <<x>>]],
                CHOOSE c \in ParseContexts :
                    c.transcript_id = 1 /\ c.batch = 0 /\ c.client).rows[1] :
         x \in {Insight("pain", "fragmented_tools", "", "s1", 9, ""),
                Insight("pain", "fragmented_tools", "bogus", "s1", 5, ""),
                Insight("deal_friction", "budget", "", "s10", 10, "")}}

\* The table insert_insights finds: empty, or holding one row of the pool.
InsertTables ==
    {UpsertAll(<<>>, l) : l \in ListsUpTo(RowPool, 1)}

\* The calls of insert_insights: up to one row more than a batch, the
\* batches whose bulk upsert raises, the rows whose own upsert raises (any
\* batches, any rows).
InsertCalls ==
    {[fn |-> "insert_insights", table |-> t, rows |-> l, bulkFails |-> b,
      unwritable |-> u] :
         t \in InsertTables, l \in ListsUpTo(RowPool, BatchSize + 1),
         b \in SUBSET (1..CeilDiv(BatchSize + 1, BatchSize)),
         u \in SUBSET (1..(BatchSize + 1))}

CallInsertInsights ==
    /\ call.fn = "insert_insights"
    /\ ~ret.done
    /\ ret' = Returned(InsertInsights(call.table, call.rows, call.bulkFails,
                                      call.unwritable))
    /\ UNCHANGED <<call, orchVars, poolVars>>

\* Longest text, in lines, and highest token ceiling of a chunker call.
MaxLines == 4
MaxTokens == 3

LineKinds ==
    {Line(FALSE, 0), Line(FALSE, 1), Line(FALSE, 2), Line(TRUE, 1),
     Line(TRUE, 2)}

ChunkerCalls ==
    {[fn |-> "chunk_transcript", text |-> t, max_tokens |-> c] :
         t \in ListsUpTo(LineKinds, MaxLines) \ {<<>>}, c \in 1..MaxTokens}

CallChunkTranscript ==
    /\ call.fn = "chunk_transcript"
    /\ ~ret.done
    /\ ret' = Returned(ChunkTranscript(call.text, call.max_tokens))
    /\ UNCHANGED <<call, orchVars, poolVars>>

\* The segments of the texts handed to chunk_text_for_embedding: a short
\* turn, one that fits the overlap exactly, a long one, a sentence above
\* CHUNK_SIZE, and a turn of two long sentences.
MaxSegments == 3
SegmentKinds == {<<100>>, <<150>>, <<700>>, <<900>>, <<700, 700>>}

EmbedCalls ==
    {[fn |-> "chunk_text_for_embedding", text |-> t] :
         t \in ListsUpTo(SegmentKinds, MaxSegments)}

CallChunkTextForEmbedding ==
    /\ call.fn = "chunk_text_for_embedding"
    /\ ~ret.done
    /\ ret' = Returned(ChunkTextForEmbedding(call.text))
    /\ UNCHANGED <<call, orchVars, poolVars>>

Calls ==
    RetryCalls \cup ParseCalls \cup ChunkerCalls \cup EmbedCalls
        \cup {c \in InsertCalls :
                 /\ c.unwritable \subseteq 1..Len(c.rows)
                 /\ c.bulkFails \subseteq 1..CeilDiv(Len(c.rows), BatchSize)
                 /\ \A i \in c.unwritable :
                        CeilDiv(i, BatchSize) \in c.bulkFails}

InitCall ==
    /\ InitOrchestrator
    /\ InitPool
    /\ call \in Calls
    /\ ret = NoRet

NextCall ==
    \/ CallProcessSingle
    \/ CallProcessChunk
    \/ CallParseResponse
    \/ CallInsertInsights
    \/ CallChunkTranscript
    \/ CallChunkTextForEmbedding

SpecCalls == InitCall /\ [][NextCall]_vars

\* ------------------------------------------------- the direct processor
\* run_direct.py: max_workers of the ThreadPoolExecutor.
CONCURRENCY == 30
\* Threads of the pool in the model, and chunks of a run.
PoolSize == 2
MaxChunks == 3

\* The threads the executor can start.
MaxWorkers == Min(CONCURRENCY, PoolSize)

\* What the chunk of each transcript brings: how the attempts of its request end and the answer
\* of the model. A rejected request; an answer whose only insight is
\* dropped; a product_gap naming a feature not yet known; a pain and a faq
\* naming that same feature.
Answer(insights) ==
    [text |-> FALSE, parses |-> TRUE,
     data |-> [object |-> TRUE, has_insights |-> TRUE, insights |-> insights]]

DirectCorpus ==
    <<[attempts |-> [k \in 1..CHUNK_ATTEMPTS |-> "bad_request"],
      raw |-> Answer(<<>>)],
     [attempts |-> [k \in 1..CHUNK_ATTEMPTS |-> "ok"],
      raw |-> Answer(<<Insight("pain", "unknown", "chat", "s2", 5, "")>>)],
     [attempts |-> [k \in 1..CHUNK_ATTEMPTS |-> "ok"],
      raw |-> Answer(<<FeatureInsight("product_gap", "missing_feature", "chat",
                                      "s5", <<"A", " ", "b">>)>>)],
     [attempts |-> [k \in 1..CHUNK_ATTEMPTS |->
                       IF k = 1 THEN "rate_limit" ELSE "ok"],
      raw |-> Answer(<<Insight("pain", "fragmented_tools", "", "s1", 9, ""),
                       FeatureInsight("faq", "pricing", "chat", "s9",
                                      <<"a", "_", "b">>)>>)]>>

\* What fetch_transcripts returns to main: transcripts of the corpus by id,
\* where the view may hold a transcript more than once. A view follows one
\* of the orders below, its last transcript repeated up to MaxChunks.
DirectOrders ==
    {<<3, 4, 2>>, <<3, 4, 1>>, <<3, 1, 1>>, <<1, 1, 1>>, <<1, 2, 4>>,
     <<4, 3, 2>>}

DirectViews ==
    {[i \in 1..MaxChunks |-> IF i <= Len(o) THEN o[i] ELSE o[Len(o)]] :
         o \in DirectOrders}

\* main, lines 150-158: the chunk of transcript tid (its text fits one
\* chunk), with its metadata.
DirectChunk(tid) ==
    [custom_id |-> CustomId(tid, 0), transcript_id |-> tid, chunk_index |-> 0,
     metadata |-> Metadata(tid), attempts |-> DirectCorpus[tid].attempts,
     raw |-> DirectCorpus[tid].raw]

\* A submitted call of process_and_insert that no thread has taken yet.
Queued ==
    [pc |-> "queued", failed |-> FALSE, todo |-> <<>>, rows |-> <<>>,
     offset |-> 0, at |-> 0, inserted |-> 0, snap |-> ZeroDirectStats]

\* What main finds on disk and at the provider: nothing, or what a batch
\* run of the orchestrator over the view <<1, 2>> left when it was killed
\* while polling its first job (SubmitBatch, SavePending).
NothingPersisted ==
    [stateFile |-> MissingFile, mapFiles |-> <<>>, jobs |-> <<>>, now |-> 1]

PendingPersisted ==
    LET sub == BatchChunks(AllChunks(<<1, 2>>), 0, Ceiling)
    IN  [stateFile |-> JsonFile(PendingState(1, 1, DefaultModel, Len(sub), 2)),
         mapFiles |-> (1 :> ChunkMapOf(sub)),
         jobs |-> <<NewJob(sub, DefaultModel)>>,
         now |-> 3]

DirectStarts == {NothingPersisted, PendingPersisted}

\* main is about to start.
InitDirect ==
    /\ InitIdle
    /\ sink = <<>>
    /\ \E found \in DirectStarts :
           /\ stateFile = found.stateFile
           /\ mapFiles = found.mapFiles
           /\ jobs = found.jobs
           /\ now = found.now
    /\ InitCalls
    /\ main_pc = "start"
    /\ all_chunks = <<>>
    /\ queue_next = 1
    /\ worker = <<>>
    /\ lock = 0
    /\ direct_stats = ZeroDirectStats
    /\ features = SeedFeatureSets
    /\ table = <<>>
    /\ saved = <<>>
    /\ registered = <<>>
    /\ handed = <<>>

\* main up to the pool (lines 116-187): the transcripts are fetched, those
\* with rows in the table are left out, the others are chunked in the order
\* of the view, and one call of process_and_insert per chunk is submitted.
StartDirect(view) ==
    /\ main_pc = "start"
    /\ LET transcripts == SelectSeqNotIn(view, ProcessedIds(table))
           made == [i \in 1..Len(transcripts) |-> DirectChunk(transcripts[i])]
       IN  /\ main_pc' = IF transcripts = <<>> THEN "done" ELSE "pool"
           /\ all_chunks' = made
           /\ worker' = [i \in 1..Len(made) |-> Queued]
           /\ handed' = [i \in 1..Len(made) |-> 0]
    /\ UNCHANGED <<queue_next, lock, direct_stats, features, table, saved,
                   registered, orchVars, callVars>>

\* The chunks inside process_and_insert.
Running == {i \in DOMAIN worker : worker[i].pc \notin {"queued", "done"}}

\* Faulty variant: the executor starts a thread for every call.
PoolAlwaysHasRoom == TRUE

\* A thread of the pool is free, or can still be started.
PoolHasRoom == Cardinality(Running) < MaxWorkers

\* Faulty variant: the counters are updated without the lock.
LockIgnored == TRUE

\* _lock can be acquired.
LockFree == lock = 0

\* Where process_and_insert goes when parse_response has returned rows.
AfterParse(rows) == IF rows # <<>> THEN "insert" ELSE "lock"

\* The executor hands the next call of its queue to a thread.
TakeChunk ==
    /\ main_pc = "pool"
    /\ queue_next <= Len(all_chunks)
    /\ PoolHasRoom
    /\ worker' = [worker EXCEPT ![queue_next].pc = "call"]
    /\ handed' = [handed EXCEPT ![queue_next] = @ + 1]
    /\ queue_next' = queue_next + 1
    /\ UNCHANGED <<main_pc, all_chunks, lock, direct_stats, features, table,
                   saved, registered, orchVars, callVars>>

\* process_chunk returns or raises; parse_response loads and validates the
\* answer (lines 82-85 of run_direct.py, 63-77 of parser.py).
CallChunk(i) ==
    /\ worker[i].pc = "call"
    /\ LET got == ProcessChunk(all_chunks[i].attempts)
           raw == all_chunks[i].raw
           loaded == IF raw.text THEN JsonLoads(raw) ELSE <<raw.data>>
           insights == IF loaded # <<>> /\ ModelValidate(loaded[1])
                       THEN loaded[1].insights ELSE <<>>
       IN  worker' = [worker EXCEPT ![i] =
               IF got.outcome # "ok"
               THEN [@ EXCEPT !.pc = "lock", !.failed = TRUE]
               ELSE [@ EXCEPT !.pc = IF insights = <<>> THEN "lock" ELSE "parse",
                              !.todo = insights]]
    /\ UNCHANGED <<main_pc, all_chunks, queue_next, lock, direct_stats,
                   features, table, saved, registered, handed, orchVars,
                   callVars>>

\* One turn of the loop of parse_response up to the membership test of
\* lines 83-88: the insight is dropped, or its row is appended, or its
\* feature is found to be new.
NormalizeStep(i) ==
    /\ worker[i].pc = "parse"
    /\ LET c == all_chunks[i]
           row == NormalizeInsight(Head(worker[i].todo), c.transcript_id,
                                   c.chunk_index, c.metadata, DefaultModel, 0)
           rows == worker[i].rows \o row
           rest == Tail(worker[i].todo)
       IN  worker' = [worker EXCEPT ![i] =
               IF row # <<>> /\ IsNewFeature(row[1], features, TRUE)
               THEN [@ EXCEPT !.pc = "register"]
               ELSE [@ EXCEPT !.rows = rows, !.todo = rest,
                              !.pc = IF rest = <<>> THEN AfterParse(rows)
                                     ELSE "parse"]]
    /\ UNCHANGED <<main_pc, all_chunks, queue_next, lock, direct_stats,
                   features, table, saved, registered, handed, orchVars,
                   callVars>>

\* _register_new_feature, line 221: the code enters _new_features; the
\* request of insert_new_feature is still to be made.
RegisterStep(i) ==
    /\ worker[i].pc = "register"
    /\ LET c == all_chunks[i]
           row == NormalizeInsight(Head(worker[i].todo), c.transcript_id,
                                   c.chunk_index, c.metadata, DefaultModel, 0)
       IN  features' = [features EXCEPT !.new = @ \cup {row[1].feature_name}]
    /\ worker' = [worker EXCEPT ![i].pc = "register_store"]
    /\ UNCHANGED <<main_pc, all_chunks, queue_next, lock, direct_stats, table,
                   saved, registered, handed, orchVars, callVars>>

\* _register_new_feature, lines 222-223, then rows.append(row): the request
\* of insert_new_feature has returned and the code enters _valid_features.
RegisterStore(i) ==
    /\ worker[i].pc = "register_store"
    /\ LET c == all_chunks[i]
           row == NormalizeInsight(Head(worker[i].todo), c.transcript_id,
                                   c.chunk_index, c.metadata, DefaultModel, 0)
           rows == worker[i].rows \o row
           rest == Tail(worker[i].todo)
       IN  /\ features' = [features EXCEPT !.valid = @ \cup {row[1].feature_name}]
           /\ registered' = Append(registered, row[1].feature_name)
           /\ worker' = [worker EXCEPT ![i] =
                  [@ EXCEPT !.rows = rows, !.todo = rest,
                            !.pc = IF rest = <<>> THEN AfterParse(rows)
                                   ELSE "parse"]]
    /\ UNCHANGED <<main_pc, all_chunks, queue_next, lock, direct_stats, table,
                   saved, handed, orchVars, callVars>>

\* Where insert_insights goes after the batch that starts at offset.
AfterBatch(w) ==
    [w EXCEPT !.offset = @ + BatchSize,
              !.pc = IF w.offset + BatchSize >= Len(w.rows) THEN "lock"
                     ELSE "insert"]

\* inserted = insert_insights(supabase, rows), line 92: the bulk upsert of
\* the batch at offset (db.py 263-270), which writes the batch or raises.
DirectInsert(i, raises) ==
    /\ worker[i].pc = "insert"
    /\ LET w == worker[i]
           batch == Slice(w.rows, w.offset, w.offset + BatchSize)
       IN  IF raises
           THEN /\ worker' = [worker EXCEPT ![i].pc = "insert_single",
                                            ![i].at = w.offset]
                /\ UNCHANGED table
           ELSE /\ table' = UpsertAll(table, batch)
                /\ worker' = [worker EXCEPT ![i] =
                       AfterBatch([w EXCEPT !.inserted = @ + Len(batch)])]
    /\ UNCHANGED <<main_pc, all_chunks, queue_next, lock, direct_stats,
                   features, saved, registered, handed, orchVars, callVars>>

\* The fallback of insert_insights (db.py 271-279): the upsert of one row of
\* the batch, which writes the row or raises and is skipped.
DirectInsertRow(i, raises) ==
    /\ worker[i].pc = "insert_single"
    /\ LET w == worker[i]
           row == w.rows[w.at + 1]
           next == [w EXCEPT !.at = @ + 1,
                             !.inserted = IF raises THEN @ ELSE @ + 1]
       IN  /\ table' = IF raises THEN table ELSE UpsertRow(table, row)
           /\ worker' = [worker EXCEPT ![i] =
                  IF next.at >= Min(w.offset + BatchSize, Len(w.rows))
                  THEN AfterBatch(next) ELSE next]
    /\ UNCHANGED <<main_pc, all_chunks, queue_next, lock, direct_stats,
                   features, saved, registered, handed, orchVars, callVars>>

\* with _lock: the lock is taken and the counters are read.
AcquireLock(i) ==
    /\ worker[i].pc = "lock"
    /\ LockFree
    /\ lock' = i
    /\ worker' = [worker EXCEPT ![i].snap = direct_stats, ![i].pc = "update"]
    /\ UNCHANGED <<main_pc, all_chunks, queue_next, direct_stats, features,
                   table, saved, registered, handed, orchVars, callVars>>

\* The counters are written and the lock released: lines 94-96 when there
\* are rows, 107 when there are none, 111-112 after an exception.
UpdateStats(i) ==
    /\ worker[i].pc = "update"
    /\ LET w == worker[i]
       IN  direct_stats' =
               IF w.failed
               THEN [w.snap EXCEPT !.errors = @ + 1, !.processed_chunks = @ + 1]
               ELSE IF w.rows # <<>>
               THEN [w.snap EXCEPT !.parsed = @ + Len(w.rows),
                                   !.inserted = @ + w.inserted,
                                   !.processed_chunks = @ + 1]
               ELSE [w.snap EXCEPT !.processed_chunks = @ + 1]
    /\ lock' = 0
    /\ worker' = [worker EXCEPT ![i].pc = "done"]
    /\ UNCHANGED <<main_pc, all_chunks, queue_next, features, table, saved,
                   registered, handed, orchVars, callVars>>

\* Every future is done: main leaves the pool, logs the summary and saves
\* the totals (lines 195-217).
Drained == \A i \in DOMAIN worker : worker[i].pc = "done"

FinishDirect ==
    /\ main_pc = "pool"
    /\ Drained
    /\ main_pc' = "done"
    /\ saved' = <<DirectState(direct_stats.parsed, direct_stats.inserted, now)>>
    /\ stateFile' = SaveState(DirectState(direct_stats.parsed,
                                          direct_stats.inserted, now))
    /\ UNCHANGED <<all_chunks, queue_next, worker, lock, direct_stats,
                   features, table, registered, handed, orchButState,
                   callVars>>

NextDirect ==
    \/ \E view \in DirectViews : StartDirect(view)
    \/ TakeChunk
    \/ \E i \in DOMAIN worker : CallChunk(i)
    \/ \E i \in DOMAIN worker : NormalizeStep(i)
    \/ \E i \in DOMAIN worker : RegisterStep(i)
    \/ \E i \in DOMAIN worker : RegisterStore(i)
    \/ \E i \in DOMAIN worker : \E raises \in BOOLEAN : DirectInsert(i, raises)
    \/ \E i \in DOMAIN worker :
           \E raises \in BOOLEAN : DirectInsertRow(i, raises)
    \/ \E i \in DOMAIN worker : AcquireLock(i)
    \/ \E i \in DOMAIN worker : UpdateStats(i)
    \/ FinishDirect

SpecDirect == InitDirect /\ [][NextDirect]_vars

\* ----------------------------------------------------------------- claims
\* The job a run handled last.
LastJob ==
    IF mode = "resume" THEN batch_id
    ELSE IF runJobs = <<>> THEN 0 ELSE runJobs[Len(runJobs)]

\* A batch run over some chunks has returned.
BatchRunReturned ==
    pc = "done" /\ outcome = "returned" /\ mode = "batch" /\ chunks # <<>>

FailureStatuses == TerminalStatuses \ {"completed"}

\* The rows one uninterrupted ingestion of job j writes: its results parsed
\* with the chunks it was submitted with and the model it was submitted for.
CleanRows(j) ==
    RowsOfResults(DownloadBatchResults(jobs[j]), ChunkMapOf(jobs[j].chunks),
                  jobs[j].model, j)

\* What job j adds to the error count: the unusable answers of a completed
\* job, request_counts.failed of any other.
JobErrors(j) ==
    IF jobs[j].status = "completed"
    THEN NoneCount(DownloadBatchResults(jobs[j]))
    ELSE jobs[j].failed

\* The same, with the chunks of a job that did not complete counted as failed.
JobChunkErrors(j) ==
    IF jobs[j].status = "completed"
    THEN NoneCount(DownloadBatchResults(jobs[j]))
    ELSE Len(jobs[j].chunks)

RECURSIVE SumErrors(_)
SumErrors(js) == IF js = <<>> THEN 0 ELSE JobErrors(Head(js)) + SumErrors(Tail(js))

RECURSIVE SumChunkErrors(_)
SumChunkErrors(js) ==
    IF js = <<>> THEN 0 ELSE JobChunkErrors(Head(js)) + SumChunkErrors(Tail(js))

\* A process starts: run_pipeline, or main of the script, is entered.
RunStarts == pc = "idle" /\ pc' # "idle"

\* The run that starts takes up the job state.json names.
ResumesPending == mode' = "resume" /\ batch_id' = PendingOf(stateFile)

\* A run that has taken up a job has submitted nothing, and its first request
\* to the provider, once made, is a poll of that job.
PollsPending ==
    mode = "resume" =>
        /\ runJobs = <<>>
        /\ firstCall \in {NoCall, [kind |-> "poll", id |-> batch_id]}

\* C1 (as stated): whenever state.json holds a pending job id at the start
\* of a run, the run submits nothing and its first request to the provider
\* is a poll of that job.  Fails: a run without resume never reads the state.
C1_EveryRunPollsPending ==
    /\ [][(RunStarts /\ PendingOf(stateFile) # 0) => ResumesPending]_vars
    /\ []PollsPending

\* C1 (amended): a run started with resume set, when state.json holds a
\* pending job id, submits nothing and its first request to the provider is
\* a poll of that job.
C1_ResumeRunPollsPending ==
    /\ [][(RunStarts /\ opts'.resume /\ PendingOf(stateFile) # 0) =>
              ResumesPending]_vars
    /\ []PollsPending

\* A resume run has polled the pending job and is about to read its results.
C1_Witness ==
    /\ pc = "download"
    /\ opts.resume
    /\ mode = "resume"
    /\ PendingOf(stateFile) = batch_id
    /\ firstCall = [kind |-> "poll", id |-> batch_id]

\* C2 (as stated): from the moment submit_batch has created the job, the
\* persisted state names the job and its chunk map.  Fails between
\* submit_batch and save_state.
C2_HeldFromSubmission ==
    (mode = "batch" /\ pc \in {"save_map", "save_pending", "polling",
                               "poll_sleep", "download", "insert",
                               "insert_row", "clear", "batch_failed"}) =>
        /\ PendingOf(stateFile) = batch_id
        /\ LoadChunkMap(stateFile.dict, mapFiles) = ChunkMapOf(jobs[batch_id].chunks)

\* The pending state is one that run_pipeline wrote (the state that
\* run_remaining_batches.py writes names the part).
WrittenByPipeline(d) == d.pending_batch_id # 0 /\ d.part = 0

\* C2 (amended): for a job that run_pipeline submitted, from the completion
\* of save_state (before the first poll) until the run next writes
\* state.json, the persisted state names the job, its model and its chunk
\* map, so a kill leaves them; and a resume run is attached to the pending
\* job and submits nothing, with that job's chunk map when run_pipeline wrote
\* the pending state.
C2_HeldFromSave ==
    /\ (mode = "batch" /\ pc \in {"polling", "poll_sleep", "download",
                                  "insert", "insert_row", "clear",
                                  "batch_failed"}) =>
           /\ PendingOf(stateFile) = batch_id
           /\ stateFile.dict.model = jobs[batch_id].model
           /\ LoadChunkMap(stateFile.dict, mapFiles)
                  = ChunkMapOf(jobs[batch_id].chunks)
    /\ (mode = "resume" /\ pc \notin {"idle", "done"}) =>
           /\ PendingOf(stateFile) = batch_id
           /\ batch_id \in 1..Len(jobs)
           /\ runJobs = <<>>
           /\ WrittenByPipeline(state) =>
                  LoadChunkMap(state, mapFiles)
                      = ChunkMapOf(jobs[batch_id].chunks)

\* A resume run is reading the results of a job whose submitting run was
\* killed (a job that completes under its own run is cleared by it).
C2_Witness ==
    /\ mode = "resume"
    /\ pc = "download"
    /\ WrittenByPipeline(state)
    /\ jobs[batch_id].status = "completed"
    /\ Len(jobs[batch_id].chunks) = 2

\* The rows of the sink that carry the id of job j, by content hash.
SinkOfJob(j) ==
    [h \in {k \in DOMAIN sink : sink[k].batch_id = j} |-> sink[h]]

\* The table one uninterrupted ingestion of job j makes of its rows.
CleanSink(j) == UpsertAll(<<>>, CleanRows(j))

\* Every row of job j in the sink is a row an uninterrupted ingestion of the
\* job writes, under its own hash.
WithinCleanSink(j) ==
    LET clean == CleanRows(j)
    IN  \A h \in DOMAIN sink :
            sink[h].batch_id = j => \E k \in 1..Len(clean) : sink[h] = clean[k]

\* C3: while run_pipeline ingests a job's results and when insert_insights
\* has returned, in the run that submitted the job or in a resume run after
\* any number of kills, the sink holds no row of the job beyond those of one
\* uninterrupted ingestion (no row is counted twice), and when the store
\* took every row of this run the rows of the job in the sink are those one
\* uninterrupted ingestion leaves: same rows, same row count.  Fails in a
\* resume run over a pending state that run_remaining_batches.py wrote: it
\* names no chunk map, and the rows are made with chunk_index 0 and no
\* metadata.
C3_ReingestConverges ==
    (pc \in {"insert", "insert_row", "clear"} /\ mode \in {"batch", "resume"}) =>
        /\ WithinCleanSink(result.id)
        /\ (pc = "clear" /\ stats.insights_inserted = Len(all_rows)) =>
               SinkOfJob(result.id) = CleanSink(result.id)

\* C4: the sub-jobs of a batch run over N chunks with ceiling M are the
\* contiguous slices [i*M, min((i+1)*M, N)) of the chunks, in order, each of
\* 1..M chunks; a run that returns has made exactly ceil(N/M) of them; and
\* 5000 chunks with ceiling 2000 give sizes 2000, 2000, 1000.
C4_SubJobsPartitionChunks ==
    /\ (mode = "batch" /\ pc # "idle") =>
           /\ Len(runJobs) <= CeilDiv(Len(chunks), Ceiling)
           /\ \A i \in 1..Len(runJobs) :
                  LET lo == (i - 1) * Ceiling
                      hi == Min(i * Ceiling, Len(chunks))
                  IN  /\ hi - lo \in 1..Ceiling
                      /\ jobs[runJobs[i]].chunks
                             = [k \in 1..(hi - lo) |-> chunks[lo + k]]
    /\ BatchRunReturned => Len(runJobs) = CeilDiv(Len(chunks), Ceiling)
    /\ SubBatchSizes(5000, MAX_REQUESTS_PER_BATCH) = <<2000, 2000, 1000>>

\* A run over three chunks has returned after two sub-jobs, of 2 and 1.
C4_Witness ==
    /\ BatchRunReturned
    /\ Len(chunks) = 3
    /\ Len(runJobs) = 2
    /\ Len(jobs[runJobs[2]].chunks) = 1

\* C5: every sub-job a batch run submitted before the one in hand has
\* reached a terminal status and, when completed, has been ingested and
\* cleared; so has the one in hand when the next is about to be submitted.
C5_SubJobsSequential ==
    (mode = "batch" /\ pc # "idle") =>
        \A i \in 1..Len(runJobs) :
            (i < Len(runJobs) \/ pc \in {"submit", "done"}) =>
                /\ jobs[runJobs[i]].status \in TerminalStatuses
                /\ jobs[runJobs[i]].status = "completed" => runJobs[i] \in runDone

\* The second sub-job is being polled after the first completed and was
\* ingested.
C5_Witness ==
    /\ mode = "batch"
    /\ pc = "poll_sleep"
    /\ Len(runJobs) = 2
    /\ jobs[runJobs[1]].status = "completed"
    /\ runJobs[1] \in runDone
    /\ jobs[runJobs[2]].status = "in_progress"

\* C6: a sub-job that ends failed, expired or cancelled is never ingested
\* (no row of the sink comes from it, it is never cleared as completed) and
\* does not abort the run: the run returns after all its ceil(N/M) sub-jobs,
\* the completed ones ingested, and its error count is the sum of
\* request_counts.failed of the sub-jobs that did not complete and of the
\* unusable answers of those that did.  The same holds of the parts of
\* run_remaining_batches.main: it reaches its summary after all its parts,
\* with the same error count.
C6_FailedSubJobSkipped ==
    /\ \A h \in DOMAIN sink :
           sink[h].batch_id # 0 => jobs[sink[h].batch_id].status = "completed"
    /\ \A j \in runDone : jobs[j].status = "completed"
    /\ (pc = "done" /\ runJobs # <<>>) => outcome = "returned"
    /\ BatchRunReturned =>
           /\ Len(runJobs) = CeilDiv(Len(chunks), Ceiling)
           /\ \A i \in 1..Len(runJobs) :
                  jobs[runJobs[i]].status = "completed" => runJobs[i] \in runDone
           /\ stats.errors = SumErrors(runJobs)
    /\ (mode = "remaining" /\ (pc = "summary" \/ outcome = "returned")) =>
           /\ Len(runJobs) = Parts - 1
           /\ stats.errors = SumErrors(<<RESUME_BATCH>> \o runJobs)

\* A run of two sub-jobs has returned: the first failed, the second was
\* ingested.
C6_Witness ==
    /\ BatchRunReturned
    /\ Len(runJobs) = 2
    /\ jobs[runJobs[1]].status \in FailureStatuses
    /\ jobs[runJobs[1]].failed > 0
    /\ runJobs[2] \in runDone
    /\ stats.errors = jobs[runJobs[1]].failed

\* C7: the error count of a run is the number of chunks of its sub-jobs that
\* ended failed, expired or cancelled (plus the unusable answers of the
\* completed ones).  Fails: the code adds request_counts.failed.
C7_FailedChunksCounted ==
    /\ BatchRunReturned => stats.errors = SumChunkErrors(runJobs)
    /\ (pc = "done" /\ mode = "resume" /\ result.status \in FailureStatuses) =>
           stats.errors = Len(jobs[batch_id].chunks)

\* C8: once a job's results are ingested and the state cleared, state.json
\* holds no pending id but the marker naming that job with a timestamp; a
\* resume run would not resume and get_batch_status reports no pending batch.
C8_ClearedAfterIngestion ==
    (pc \in {"submit", "done"} /\ LastJob \in runDone) =>
        /\ stateFile.kind = "json"
        /\ stateFile.dict.pending_batch_id = 0
        /\ stateFile.dict.last_completed_batch = LastJob
        /\ stateFile.dict.completed_at > 0
        /\ ~(TRUE /\ LoadState(stateFile).dict.pending_batch_id # 0)
        /\ GetBatchStatus(stateFile)
               = [status |-> "no_pending", last_completed |-> LastJob]

\* A resume run has ingested the pending job and returned.
C8_Witness ==
    /\ pc = "done"
    /\ mode = "resume"
    /\ batch_id \in runDone
    /\ stats.insights_inserted > 0

\* C9: state.json names at most one pending job, a job that exists, and the
\* job the orchestrator polls is that job.
C9_PolledJobIsPending ==
    /\ PendingOf(stateFile) \in 0..Len(jobs)
    /\ pc \in {"polling", "poll_sleep"} =>
           /\ stateFile.kind = "json"
           /\ batch_id \in 1..Len(jobs)
           /\ stateFile.dict.pending_batch_id = batch_id

\* The second sub-job of a run is being polled.
C9_Witness ==
    /\ pc = "poll_sleep"
    /\ mode = "batch"
    /\ Len(runJobs) = 2
    /\ stateFile.dict.pending_batch_id = runJobs[2]

\* C10: a run whose state.json is missing or is not JSON does not fail on
\* loading it.  Fails: json.load raises on a file a kill inside save_state
\* truncated.
C10_StateLoadNeverFatal ==
    [][(RunStarts /\ opts'.resume /\ stateFile.kind # "json") =>
          outcome' # "raised"]_vars

\* C11: a run started with dry_run set, whatever sample and resume are,
\* sends no request to the inference service (no direct call, no
\* submission, no poll) and writes no row to the sink.  Fails: sample is
\* tested before dry_run, and a resume run with a pending job polls and
\* ingests it.
C11_DryRunIsInert ==
    (pc # "idle" /\ opts.dry_run) =>
        /\ firstCall = NoCall
        /\ runJobs = <<>>
        /\ ins.inserted = 0
        /\ stats.insights_inserted = 0

\* The direct call whose result is in ret, and its attempt limit.
RetryCallDone == ret.done /\ call.fn \in {"process_single", "process_chunk"}
AttemptLimit ==
    IF call.fn = "process_single" THEN SINGLE_ATTEMPTS ELSE CHUNK_ATTEMPTS

\* C12: a direct call (process_single and process_chunk alike) sends at
\* most its fixed number of requests, sends another request only after a
\* transient error, and ends with the first answer or the first
\* non-transient failure, which is thus attempted exactly once.  Fails for
\* process_single, whose @retry names no exception class.
C12_OnlyTransientRetried ==
    RetryCallDone =>
        /\ ret.val.calls \in 1..AttemptLimit
        /\ \A k \in 1..(ret.val.calls - 1) : call.outs[k] \in Transient
        /\ call.outs[1] \in Failures \ Transient =>
               ret.val = [calls |-> 1, outcome |-> call.outs[1]]

\* parse_response has returned.
ParseDone == ret.done /\ call.fn = "parse_response"

\* The answer is text that is not JSON, or data that violates the schema.
Malformed(raw) ==
    \/ raw.text /\ ~raw.parses
    \/ ~raw.data.object
    \/ ~raw.data.has_insights
    \/ \E i \in 1..Len(raw.data.insights) :
           \/ raw.data.insights[i].insight_type \notin InsightTypes
           \/ raw.data.insights[i].confidence < 0
           \/ raw.data.insights[i].confidence > 10

\* C16: parse_response raises on no raw answer; on text that is not JSON
\* and on data that violates the schema it returns the empty list, having
\* registered no feature.
C16_ParseNeverRaises ==
    ParseDone =>
        /\ ~ret.val.raised
        /\ Malformed(call.raw) =>
               /\ ret.val.rows = <<>>
               /\ ret.val.registered = <<>>
               /\ ret.val.feats = call.ctx.feats

\* An answer whose first insight would give a row and register a feature
\* and whose second violates the schema was parsed to the empty list.
C16_Witness ==
    /\ ParseDone
    /\ ~call.raw.text
    /\ call.ctx.client
    /\ call.ctx.feats = SeedFeatureSets
    /\ Len(call.raw.data.insights) = 2
    /\ call.raw.data.insights[1].summary = "s5"
    /\ call.raw.data.insights[2].insight_type = "other"
    /\ ret.val.rows = <<>>

\* The product_gap insights of the answer whose module is a code of the
\* module catalog, and the product_gap rows returned.
GapsWithModule ==
    SelectSeq(call.raw.data.insights,
              LAMBDA x : x.insight_type = "product_gap"
                         /\ x.module # "" /\ x.module \in ValidModules)
GapRows == SelectSeq(ret.val.rows, LAMBDA r : r.insight_type = "product_gap")

\* C17: the product_gap rows of a parsed answer are the rows of its
\* product_gap insights whose module is present and in the module catalog,
\* one each; a product_gap with a missing or unknown module gives no row.
C17_ProductGapNeedsModule ==
    (ParseDone /\ ~Malformed(call.raw)) =>
        /\ Len(GapRows) = Len(GapsWithModule)
        /\ \A k \in 1..Len(GapRows) :
               /\ GapRows[k].summary = GapsWithModule[k].summary
               /\ GapRows[k].module = GapsWithModule[k].module

\* An answer of two product_gap insights, one with an unknown module and
\* one with a module of the catalog, gave the row of the second only.
C17_Witness ==
    /\ ParseDone
    /\ ~Malformed(call.raw)
    /\ Len(call.raw.data.insights) = 2
    /\ call.raw.data.insights[1].summary = "s4"
    /\ call.raw.data.insights[2].summary = "s6"
    /\ Len(ret.val.rows) = 1
    /\ ret.val.rows[1].summary = "s6"

\* The rows parse_response returns for insight i of the answer when it is
\* the only insight of the answer.
RowsAlone(i) ==
    ParseUnder([call.raw EXCEPT !.data.insights = <<call.raw.data.insights[i]>>],
               call.ctx).rows

\* C18: the rows of a schema-valid answer are, in the order of the answer,
\* the rows each of its insights gives alone: an insight that is dropped
\* removes, alters and reorders no sibling.
C18_SiblingsIndependent ==
    (ParseDone /\ ~Malformed(call.raw)) =>
        ret.val.rows
            = Concat([i \in 1..Len(call.raw.data.insights) |-> RowsAlone(i)])

\* An answer whose first insight has an unknown code and whose second is
\* valid gave the row of the second.
C18_Witness ==
    /\ ParseDone
    /\ Len(call.raw.data.insights) = 2
    /\ call.raw.data.insights[1].summary = "s2"
    /\ call.raw.data.insights[2].summary = "s10"
    /\ Len(ret.val.rows) = 1
    /\ ret.val.rows[1].summary = "s10"
    /\ ret.val.rows[1].confidence = 10

\* The five hashed fields of a row.
HashedFields(r) ==
    <<r.transcript_id, r.transcript_chunk, r.insight_type, r.insight_subtype,
      r.summary>>

\* C19: the content_hash of every row is the hash of the row's own
\* transcript_id, chunk index, insight_type, stored subtype and summary, so
\* two rows that agree on these have the same content_hash whatever their
\* module, confidence, model and batch id.
C19_HashOfRowFields ==
    ParseDone =>
        /\ \A k \in 1..Len(ret.val.rows) :
               LET r == ret.val.rows[k]
               IN  r.content_hash
                       = ComputeContentHash(
                             [insight_type |-> r.insight_type,
                              insight_subtype |-> r.insight_subtype,
                              summary |-> r.summary],
                             r.transcript_id, r.transcript_chunk)
        /\ \A k, l \in 1..Len(ret.val.rows) :
               HashedFields(ret.val.rows[k]) = HashedFields(ret.val.rows[l])
                   => ret.val.rows[k].content_hash = ret.val.rows[l].content_hash

\* Two competitive signals, one whose subtype fell back to its
\* relationship, gave rows that differ in module and confidence and have
\* one content_hash.
C19_Witness ==
    /\ ParseDone
    /\ Len(ret.val.rows) = 2
    /\ call.raw.data.insights[1].insight_subtype = "other"
    /\ ret.val.rows[1].insight_subtype = "evaluating"
    /\ ret.val.rows[1].module # ret.val.rows[2].module
    /\ ret.val.rows[1].confidence # ret.val.rows[2].confidence
    /\ ret.val.rows[1].content_hash = ret.val.rows[2].content_hash

\* insert_insights has returned.
InsertDone == ret.done /\ call.fn = "insert_insights"

\* The positions of the rows of the call that can be written: those of a
\* batch whose bulk upsert succeeds, and those whose own upsert succeeds.
Writable ==
    {i \in 1..Len(call.rows) :
         CeilDiv(i, BatchSize) \notin call.bulkFails
             \/ i \notin call.unwritable}

RECURSIVE RowsAt(_, _, _)
\* The rows at the positions S, from position i on, in list order.
RowsAt(rows, S, i) ==
    IF i > Len(rows) THEN <<>>
    ELSE (IF i \in S THEN <<rows[i]>> ELSE <<>>) \o RowsAt(rows, S, i + 1)

\* C20: insert_insights raises nothing; whichever bulk upserts fail, the
\* table ends as the table it found with every writable row of every batch
\* upserted, the rows whose own upsert fails left out, and the count it
\* returns is the number of rows written.
C20_FallbackWritesRowByRow ==
    InsertDone =>
        /\ ~ret.val.raised
        /\ ret.val.table = UpsertAll(call.table, RowsAt(call.rows, Writable, 1))
        /\ ret.val.inserted = Cardinality(Writable)

\* The bulk upsert of the first batch failed on its first row; the second
\* row of the batch and the row of the next batch were written.
C20_Witness ==
    /\ InsertDone
    /\ call.table = <<>>
    /\ Len(call.rows) = BatchSize + 1
    /\ call.bulkFails = {1}
    /\ call.unwritable = {1}
    /\ call.rows[1].content_hash # call.rows[2].content_hash
    /\ ret.val.inserted = BatchSize
    /\ call.rows[2].content_hash \in DOMAIN ret.val.table
    /\ call.rows[BatchSize + 1].content_hash \in DOMAIN ret.val.table
    /\ call.rows[1].content_hash \notin DOMAIN ret.val.table

\* C13: no more chunks are inside process_and_insert than the pool has
\* threads, which are at most CONCURRENCY; no chunk is handed to a worker
\* twice, and when the pool has drained each has been handed once.
C13_PoolBounded ==
    /\ Cardinality(Running) <= Min(CONCURRENCY, PoolSize)
    /\ \A i \in DOMAIN handed : handed[i] <= 1
    /\ Drained => \A i \in DOMAIN handed : handed[i] = 1

\* Every thread is busy while a chunk waits in the queue.
C13_Witness ==
    /\ main_pc = "pool"
    /\ Cardinality(Running) = Min(CONCURRENCY, PoolSize)
    /\ queue_next <= Len(all_chunks)
    /\ handed[queue_next] = 0

\* What chunk i adds to the counters: an error when its call raised, else
\* the rows it gives when it is the only chunk of a run and the number of
\* them that insert_insights returned for it.
Contribution(i) ==
    LET c == all_chunks[i]
        rows == ParseRaw(c.raw, c.transcript_id, c.chunk_index, c.metadata,
                         DefaultModel, 0, TRUE, SeedFeatureSets).rows
    IN  IF ProcessChunk(c.attempts).outcome # "ok"
        THEN [parsed |-> 0, inserted |-> 0, errors |-> 1]
        ELSE [parsed |-> Len(rows), inserted |-> worker[i].inserted,
              errors |-> 0]

RECURSIVE SumOver(_, _)
\* The sum of f over 1..n.
SumOver(f, n) == IF n = 0 THEN 0 ELSE f[n] + SumOver(f, n - 1)

\* C14: when the pool has drained, processed_chunks is the number of
\* chunks, errors the number of chunks whose processing raised, parsed the
\* sum of the rows each chunk gives alone and inserted the sum of what
\* insert_insights returned for each chunk (at most its rows, none for a
\* chunk that raised), under every interleaving of the workers.
C14_CountersExact ==
    Drained =>
        LET n == Len(all_chunks)
            each == [i \in 1..n |-> Contribution(i)]
        IN  /\ \A i \in 1..n : each[i].inserted <= each[i].parsed
            /\ direct_stats.processed_chunks = n
            /\ direct_stats.errors = SumOver([i \in 1..n |-> each[i].errors], n)
            /\ direct_stats.parsed = SumOver([i \in 1..n |-> each[i].parsed], n)
            /\ direct_stats.inserted
                   = SumOver([i \in 1..n |-> each[i].inserted], n)

\* A run with a chunk that raised, a chunk without rows and a chunk with
\* two rows, one of which the store refused, has ended and saved its totals.
C14_Witness ==
    /\ main_pc = "done"
    /\ direct_stats.errors = 1
    /\ direct_stats.parsed = 2
    /\ direct_stats.processed_chunks = Len(all_chunks)
    /\ \E i \in DOMAIN worker : ~worker[i].failed /\ worker[i].rows = <<>>
    /\ saved[1].total_parsed = 2
    /\ saved[1].total_inserted = 1

\* C15: a feature code is given to insert_new_feature at most once in a
\* run of the direct processor.
C15_FeatureRegisteredOnce ==
    \A k, l \in DOMAIN registered :
        registered[k] = registered[l] => k = l

\* chunk_transcript has returned.
ChunkerDone == ret.done /\ call.fn = "chunk_transcript"

\* C21: every chunk chunk_transcript returns has a token_count of at most
\* the ceiling, unless it is a single line that itself exceeds the ceiling.
C21_ChunkWithinCeiling ==
    ChunkerDone =>
        \A k \in 1..Len(ret.val) :
            \/ ret.val[k].token_count <= call.max_tokens
            \/ /\ Len(ret.val[k].text) = 1
               /\ CountTokens(ret.val[k].text) > call.max_tokens

\* The non-blank lines of a text.
Content(text) == SelectSeq(text, LAMBDA l : ~IsBlank(l))

\* C22: the lines of the chunks, taken in chunk order, are the non-blank
\* lines of the transcript in their order, each once.
C22_ChunksReproduceText ==
    ChunkerDone =>
        Concat([k \in 1..Len(ret.val) |-> Content(ret.val[k].text)])
            = Content(call.text)

\* A transcript with text before the first label and a turn over the
\* ceiling that holds a blank line was split into three chunks or more,
\* none of which has a blank line.
C22_Witness ==
    /\ ChunkerDone
    /\ Len(ret.val) >= 3
    /\ ~call.text[1].speaker /\ ~IsBlank(call.text[1])
    /\ \E i \in 2..(Len(call.text) - 1) :
           IsBlank(call.text[i]) /\ ~IsBlank(call.text[i + 1])
    /\ \E i \in 1..Len(call.text) :
           call.text[i].speaker /\ LineTokens(call.text[i]) > call.max_tokens
    /\ \A k \in 1..Len(ret.val) : Content(ret.val[k].text) = ret.val[k].text

\* C23: the chunks are numbered 0, 1, ... in list order, and a transcript
\* within the ceiling gives one chunk, numbered 0, holding the whole text.
C23_ChunkIndexGapFree ==
    ChunkerDone =>
        /\ \A k \in 1..Len(ret.val) : ret.val[k].chunk_index = k - 1
        /\ CountTokens(call.text) <= call.max_tokens =>
               /\ Len(ret.val) = 1
               /\ ret.val[1].text = call.text

\* A transcript over the ceiling gave three chunks or more; another, within
\* the ceiling, would give one.
C23_Witness ==
    /\ ChunkerDone
    /\ CountTokens(call.text) > call.max_tokens
    /\ Len(ret.val) >= 3
    /\ ret.val[Len(ret.val)].chunk_index = Len(ret.val) - 1

\* The custom_ids of a list of chunks are pairwise different.
UniqueCustomIds(cs) ==
    \A i, j \in 1..Len(cs) : cs[i].custom_id = cs[j].custom_id => i = j

\* C24: no two chunks of a run have one custom_id, in the batch pipeline
\* and in the direct processor.
C24_CustomIdsUnique == UniqueCustomIds(chunks) /\ UniqueCustomIds(all_chunks)

\* The chunk that was submitted to job j under the custom_id cid.
SubmittedChunk(j, cid) ==
    LET cs == jobs[j].chunks
    IN  cs[CHOOSE i \in 1..Len(cs) : cs[i].custom_id = cid]

\* C25: the rows run_pipeline parses from the results of a job are, result
\* by result, the rows of the answer parsed with the transcript_id,
\* chunk_index and metadata of the chunk submitted under the result's
\* custom_id, in the run that submitted the job and in a resume run.
C25_RowsCarryChunkOfCustomId ==
    (pc \in {"insert", "insert_row", "clear"} /\ mode \in {"batch", "resume"}) =>
        LET results == DownloadBatchResults(jobs[result.id])
        IN  all_rows = Concat([k \in 1..Len(results) |->
                IF ~results[k].response THEN <<>>
                ELSE LET c == SubmittedChunk(result.id, results[k].custom_id)
                     IN  ParseResponse(results[k].insights, c.transcript_id,
                                       c.chunk_index, c.metadata, model,
                                       result.id)])

\* The sub-jobs of the run that completed, in order.
CompletedJobs == SelectSeq(runJobs, LAMBDA j : jobs[j].status = "completed")

\* C26: the stats a batch run returns hold, for chunks and insights parsed,
\* the sums over the sub-jobs that completed, for insights inserted no more
\* than the rows parsed (the store may refuse rows), and for errors the sum
\* over all its sub-jobs (stated for the runs whose sub-jobs all completed).
C26_SummaryTotals ==
    (BatchRunReturned /\ CompletedJobs = runJobs) =>
        LET done == CompletedJobs
            n == Len(done)
        IN  /\ stats.chunks
                   = SumOver([i \in 1..n |->
                                  Len(DownloadBatchResults(jobs[done[i]]))], n)
            /\ stats.insights_parsed
                   = SumOver([i \in 1..n |-> Len(CleanRows(done[i]))], n)
            /\ stats.insights_inserted
                   <= SumOver([i \in 1..n |-> Len(CleanRows(done[i]))], n)
            /\ stats.errors = SumErrors(runJobs)

\* poll_batch is running, and it has returned.
InPoll == pc \in {"polling", "poll_sleep"}
PollReturned == pc \in {"download", "batch_failed"}

\* The job in hand has reached a terminal status.
JobEnded == jobs[batch_id].status \in TerminalStatuses

\* What poll_batch does in one step of its loop: it returns only from a
\* retrieve that saw a terminal status, a retrieve that saw another status is
\* followed by the sleep, and the sleep by the next retrieve of the same job.
PollLoopStep ==
    /\ (PollReturned' /\ ~PollReturned) =>
           /\ pc = "polling"
           /\ JobEnded
           /\ result' = PollResult(batch_id, jobs[batch_id])
    /\ (pc = "polling" /\ ~JobEnded /\ pc' \notin {"polling", "idle"}) =>
           /\ pc' = "poll_sleep"
           /\ batch_id' = batch_id
    /\ (pc = "poll_sleep" /\ pc' \notin {"poll_sleep", "idle"}) =>
           /\ pc' = "polling"
           /\ batch_id' = batch_id

\* C27: poll_batch returns only when the job's status is completed, failed,
\* expired or cancelled, and returns that status with the job's failed count;
\* while the status is anything else it sleeps and retrieves again; once the
\* job has a terminal status, poll_batch returns (unless the process is
\* killed first).
C27_PollUntilTerminal ==
    /\ [](PollReturned =>
             /\ result.status \in TerminalStatuses
             /\ result = PollResult(batch_id, jobs[batch_id]))
    /\ [][PollLoopStep]_vars
    /\ ((InPoll /\ JobEnded) ~> (PollReturned \/ pc = "idle"))

\* A resume run's poll_batch has returned the status and the failed count of
\* an expired job.
C27_Witness ==
    /\ mode = "resume"
    /\ pc = "batch_failed"
    /\ result.status = "expired"
    /\ result.failed > 0
    /\ result.id = batch_id

\* C28: no chunk chunk_text_for_embedding returns has segments that total
\* more than CHUNK_SIZE tokens, unless it is a single sentence or line that
\* itself exceeds CHUNK_SIZE.
C28_EmbeddingChunkWithinSize ==
    (ret.done /\ call.fn = "chunk_text_for_embedding") =>
        \A k \in 1..Len(ret.val) :
            \/ SumTokens(ret.val[k]) <= CHUNK_SIZE
            \/ /\ Len(ret.val[k]) = 1
               /\ ret.val[k][1] > CHUNK_SIZE

\* What a resume run holds at any point: the job named by state.json at its
\* start and nothing fetched, chunked or submitted; what it has done when it
\* returns: the job is terminal and, when completed, its results have been
\* read, the rows the store took are in the sink (all of them when
\* insert_insights returned their number) and the state is cleared.
ResumeRunState ==
    /\ opts.resume
    /\ batch_id # 0
    /\ batch_id = state.pending_batch_id
    /\ chunks = <<>>
    /\ sub_chunks = <<>>
    /\ batch_idx = 0
    /\ runJobs = <<>>
    /\ firstCall \in {NoCall, [kind |-> "poll", id |-> batch_id]}
    /\ runDone \subseteq {batch_id}
    /\ pc \in {"polling", "poll_sleep", "download", "insert", "insert_row",
               "clear", "batch_failed", "done"}
    /\ pc = "done" =>
           /\ outcome = "returned"
           /\ jobs[batch_id].status \in TerminalStatuses
           /\ batch_id \in runDone <=> jobs[batch_id].status = "completed"
           /\ batch_id \in runDone =>
                  /\ result.id = batch_id
                  /\ stats.insights_inserted = Len(all_rows) =>
                         UpsertAll(sink, all_rows) = sink
                  /\ PendingOf(stateFile) = 0

\* A step of a resume run creates no job and keeps the run on its job.
ResumeRunStep ==
    mode = "resume" =>
        /\ Len(jobs') = Len(jobs)
        /\ mode' = "resume" => batch_id' = batch_id

\* C29: a resume run handles exactly one job: it polls the pending job,
\* ingests its results if it completed, and returns without fetching,
\* chunking or submitting anything; the sub-jobs that would come after the
\* pending one are not submitted by it.
C29_ResumeHandlesOneJob ==
    /\ [](mode = "resume" => ResumeRunState)
    /\ [][ResumeRunStep]_vars

\* A resume run has ingested the first sub-job of a run that was split in
\* the middle of transcript 1 and has returned; the second chunk of that
\* transcript is in no job.
C29_Witness ==
    /\ mode = "resume"
    /\ pc = "done"
    /\ batch_id \in runDone
    /\ all_rows # <<>>
    /\ stats.insights_inserted = Len(all_rows)
    /\ Len(jobs[batch_id].chunks) = Ceiling
    /\ jobs[batch_id].chunks[Ceiling].custom_id = CustomId(1, 0)
    /\ \A j \in 1..Len(jobs) :
           \A i \in 1..Len(jobs[j].chunks) :
               jobs[j].chunks[i].custom_id # CustomId(1, 1)

\* state.json names a pending job that ended failed, expired or cancelled.
FailedPending ==
    /\ PendingOf(stateFile) # 0
    /\ jobs[PendingOf(stateFile)].status \in FailureStatuses

\* The step of the submitting run after a poll that returned a failure
\* status: save_state adds batch_status to the pending state (or the process
\* is killed first and the state stays as it is).
FailureSavedStep ==
    (pc = "batch_failed" /\ mode = "batch") =>
        \/ stateFile' = stateFile
        \/ /\ stateFile' = JsonFile([stateFile.dict EXCEPT
                                        !.batch_status = result.status])
           /\ PendingOf(stateFile') = batch_id

\* The step of a resume run after such a poll writes nothing.
FailureUnwrittenStep ==
    (pc = "batch_failed" /\ mode = "resume") => stateFile' = stateFile

\* A resume run started while the failed job is pending polls that job.
FailedRepolledStep ==
    (pc = "idle" /\ pc' # "idle" /\ opts'.resume /\ FailedPending) =>
        /\ mode' = "resume"
        /\ pc' = "polling"
        /\ batch_id' = PendingOf(stateFile)
        /\ runJobs' = <<>>

\* The run saves the pending state of a job it submitted itself.
LaterJobSaved ==
    /\ pc = "save_pending"
    /\ \E i \in 1..Len(runJobs) : runJobs[i] = batch_id
    /\ PendingOf(stateFile') = batch_id

\* The run has ingested the results of a job and saves the last-completed
\* marker.
ResultsIngested ==
    /\ pc = "clear"
    /\ stateFile' = JsonFile(CompletedState(result.id, now))

\* The failed job's id leaves state.json only by the save_state after a
\* later submit_batch or by the one after an ingestion.
FailedPendingStep ==
    (FailedPending /\ PendingOf(stateFile') # PendingOf(stateFile)) =>
        LaterJobSaved \/ ResultsIngested

\* What the runs that saw the failure leave: a resume run the state it
\* found, still naming the job; a batch run whose last sub-job failed the
\* pending state with batch_status.
FailedJobKept ==
    /\ (mode = "resume" /\ jobs[batch_id].status \in FailureStatuses) =>
           /\ stateFile = JsonFile(state)
           /\ PendingOf(stateFile) = batch_id
           /\ runJobs = <<>>
    /\ (BatchRunReturned /\ jobs[LastJob].status \in FailureStatuses) =>
           /\ PendingOf(stateFile) = LastJob
           /\ stateFile.dict.batch_status = jobs[LastJob].status

\* C30: after a job ends failed, expired or cancelled, state.json still
\* holds its id as pending_batch_id (batch_status added by the submitting
\* run, nothing written by a resume run); the id disappears only when a
\* later job is submitted or results are ingested, and every resume run
\* started before that polls the same job and submits nothing.  Fails when
\* the submitting run is killed inside the save_state that adds
\* batch_status: the file is left truncated.
C30_FailedJobStaysPending ==
    /\ []FailedJobKept
    /\ [][/\ FailureSavedStep
          /\ FailureUnwrittenStep
          /\ FailedRepolledStep
          /\ FailedPendingStep]_vars

====
